---- MODULE Spec2Model ----
(***************************************************************************)
(* Model of the credential lifecycle (analytics_mcp/auth.py and            *)
(* analytics_mcp/tools/utils.py), the authentication retry wrapper         *)
(* (utils.retry_on_auth_error), the property resource-name                 *)
(* canonicalisation (utils.construct_property_rn), the reporting tools     *)
(* (tools/reporting) and the config file as server processes share it, of  *)
(* google-analytics-mcp.                                                   *)
(*                                                                         *)
(* Time is counted in ticks of 37.5 seconds, so that google-auth's         *)
(* REFRESH_THRESHOLD (3 min 45 s) is 6 ticks and the 5 minute lookahead of *)
(* auth.py is 8 ticks.  A naive UTC datetime is represented by its UTC     *)
(* epoch tick; a unix timestamp is an epoch tick as well.                  *)
(***************************************************************************)
EXTENDS Integers, Sequences, FiniteSets, TLC

VARIABLES
    module,                  \* the credential module this process imports
    config,                  \* the config source (file named by config_path)
    config_path,             \* coordinator._config_path / environment variable
    now,                     \* wall clock (UTC epoch ticks)
    tz,                      \* local time zone offset of the process (ticks)
    issued,                  \* number of access tokens the token endpoint issued
    auth_cached_credentials, \* auth._cached_credentials
    cached_credentials,      \* utils._cached_credentials
    cached_admin_client,     \* utils._cached_admin_client
    cached_data_client,      \* utils._cached_data_client
    last,                    \* record of the last completed credential-store call
    rpc,                     \* retry_on_auth_error: position of the call
    max_retries,             \* retry_on_auth_error: argument
    attempt,                 \* retry_on_auth_error: loop variable
    last_exception,          \* retry_on_auth_error: local variable
    outcome,                 \* retry_on_auth_error: what reached the caller
    log,                     \* retry_on_auth_error: invocations and invalidations
    property_value,          \* construct_property_rn: argument
    property_rn,             \* construct_property_rn: result
    tool_call,               \* reporting tool: the call in progress, its arguments
    tool_pc,                 \* reporting tool: position of the call
    request,                 \* reporting tool: the request it built
    tool_response,           \* reporting tool: what the backend answered
    result,                  \* reporting tool: what reached the caller
    tool_log,                \* reporting tool: credential I/O and backend calls
    file,                    \* shared config file: the content on disk
    srv,                     \* shared config file: the server processes using it
    versions                 \* shared config file: the documents handed to json.dump

credVars  == <<module, config, config_path, now, tz, issued, auth_cached_credentials, last>>
cacheVars == <<cached_credentials, cached_admin_client, cached_data_client>>
retryVars == <<rpc, max_retries, attempt, last_exception, outcome, log>>
propVars  == <<property_value, property_rn>>
toolVars  == <<tool_call, tool_pc, request, tool_response, result, tool_log>>
fileVars  == <<file, srv, versions>>
vars      == <<credVars, cacheVars, retryVars, propVars, toolVars, fileVars>>

----------------------------------------------------------------------------
(* Bounds of the model *)

\* first clock value of a behaviour
StartTime == 20
\* the clock runs from StartTime to StartTime + MaxClock
MaxClock == 2
\* the token endpoint issues at most MaxIssued access tokens
MaxIssued == 2
\* largest max_retries passed to retry_on_auth_error
MaxRetries == 2
\* longest property_value string (in symbols)
MaxLen == 4
\* largest |property_value| passed as an integer
MaxInt == 12
\* funnel_steps: the longest list of steps
MaxSteps == 3

----------------------------------------------------------------------------
(* Values *)

\* Python's None for an int-valued slot (expiry, expiresAt)
NoExpiry == -1

\* google.auth.credentials: a credential is reported expired REFRESH_THRESHOLD
\* (3 min 45 s = 6 ticks) before its expiry
REFRESH_THRESHOLD == 6

\* auth.py: "Preemptively refresh if token expires in < 5 minutes" (300 s = 8 ticks)
LOOKAHEAD == 8

\* Python's None for an object-valued slot
None == [kind |-> "none"]

\* google.oauth2.credentials.Credentials(token=.., refresh_token=.., expiry=..)
Credentials(token, refresh_token, client_id, client_secret, expiry) ==
    [kind |-> "oauth", token |-> token, refresh_token |-> refresh_token,
     client_id |-> client_id, client_secret |-> client_secret, expiry |-> expiry]

\* the credential google.auth.default() resolves: no token yet, no expiry
DefaultCredentials ==
    [kind |-> "adc", token |-> "", refresh_token |-> "",
     client_id |-> "", client_secret |-> "", expiry |-> NoExpiry]

\* google.auth.credentials.Credentials.expired
Expired(c, t) == c.expiry # NoExpiry /\ t >= c.expiry - REFRESH_THRESHOLD

\* datetime.utcfromtimestamp(ts) / datetime.fromtimestamp(ts, tz=utc).replace(tzinfo=None)
utcfromtimestamp(ts) == ts

\* int(naive.timestamp()): Python reads a naive datetime as LOCAL time
timestamp(naive, offset) == naive - offset

\* the i-th access token the token endpoint issues
AccessToken(i) == <<"at1", "at2", "at3", "at4">>[i]

----------------------------------------------------------------------------
(* The config source: a JSON document, or a file that cannot be loaded *)

\* the JSON object {}
EmptyDict == [k \in {} |-> ""]

\* dict.get(key) of a string-valued key: None and "" are both falsy
GetStr(d, k) == IF k \in DOMAIN d THEN d[k] ELSE ""

\* dict.get(key) of an int-valued key
GetInt(d, k) == IF k \in DOMAIN d THEN d[k] ELSE NoExpiry

\* dict.get(key) of a dict-valued key: None and {} are both falsy
GetSection(d, k) == IF k \in DOMAIN d THEN d[k] ELSE EmptyDict

\* d[k] = v
SetKey(d, k, v) == [x \in DOMAIN d \cup {k} |-> IF x = k THEN v ELSE d[x]]

\* truthiness of expires_at
TruthyInt(n) == n # NoExpiry /\ n # 0

Restrict(d, S) == [k \in S |-> d[k]]

OAuthFull == [clientId |-> "cid", clientSecret |-> "secret"]

TokensFull(exp) ==
    [accessToken |-> "at0", refreshToken |-> "rt0", expiresAt |-> exp]

\* expiresAt values of the initial documents: 0, long past, between the
\* refresh threshold and the lookahead, at the lookahead, beyond both
InitialExpiresAt ==
    {0, StartTime - 9, StartTime + LOOKAHEAD - 1, StartTime + LOOKAHEAD,
     StartTime + LOOKAHEAD + 3}

\* a key this program does not know, next to the two sections
Document(oauth_config, tokens) ==
    [theme |-> "dark", googleOAuthCredentials |-> oauth_config,
     googleAnalyticsTokens |-> tokens]

\* documents with every required field, with and without expiresAt
CompleteDocuments ==
    {Document(OAuthFull, TokensFull(e)) : e \in InitialExpiresAt}
    \cup {Document(OAuthFull, Restrict(TokensFull(0), {"accessToken", "refreshToken"}))}

\* documents with one defect: a section missing or {}, a field missing or ""
DefectiveDocuments ==
    LET Good == Document(OAuthFull, TokensFull(StartTime + LOOKAHEAD + 3))
    IN  {EmptyDict,
         Restrict(Good, {"theme", "googleAnalyticsTokens"}),
         Restrict(Good, {"theme", "googleOAuthCredentials"}),
         [Good EXCEPT !.googleOAuthCredentials = EmptyDict],
         [Good EXCEPT !.googleAnalyticsTokens = EmptyDict],
         [Good EXCEPT !.googleOAuthCredentials = Restrict(OAuthFull, {"clientSecret"})],
         [Good EXCEPT !.googleOAuthCredentials.clientSecret = ""],
         [Good EXCEPT !.googleAnalyticsTokens = Restrict(@, {"refreshToken", "expiresAt"})],
         [Good EXCEPT !.googleAnalyticsTokens.refreshToken = ""]}

Documents == CompleteDocuments \cup DefectiveDocuments

Doc(d) == [kind |-> "doc", doc |-> d]

\* a file that is absent, that may not be read, or that is not JSON
Missing    == [kind |-> "missing", doc |-> EmptyDict]
Unreadable == [kind |-> "unreadable", doc |-> EmptyDict]
InvalidJson == [kind |-> "invalid", doc |-> EmptyDict]

ConfigSources == {Missing, Unreadable, InvalidJson} \cup {Doc(d) : d \in Documents}

\* the document has everything _try_oauth_authentication requires
Complete(cfg) ==
    /\ cfg.kind = "doc"
    /\ LET o == GetSection(cfg.doc, "googleOAuthCredentials")
           t == GetSection(cfg.doc, "googleAnalyticsTokens")
       IN  /\ GetStr(o, "clientId") # "" /\ GetStr(o, "clientSecret") # ""
           /\ GetStr(t, "accessToken") # "" /\ GetStr(t, "refreshToken") # ""

----------------------------------------------------------------------------
(* What the environment decides during one call *)

\* expires_in of a token response (ticks): shorter and longer than the
\* refresh threshold
ExpiresIn == {4, 12}

Env == [refresh : {"ok", "fail"},       \* credentials.refresh(Request())
        expires_in : ExpiresIn,
        persist : {"ok", "read_fail", "write_fail"},  \* _update_config_file I/O
        default : {"ok", "fail"}]       \* google.auth.default()

\* _update_config_file (auth.py and utils.py are the same code): every
\* exception is swallowed and leaves the file as it was
_update_config_file(cfg, new_access_token, expires_at, p) ==
    IF cfg.kind # "doc" \/ p = "read_fail" THEN cfg
    ELSE IF "googleAnalyticsTokens" \notin DOMAIN cfg.doc THEN cfg
    ELSE IF p = "write_fail" THEN cfg
    ELSE [cfg EXCEPT !.doc["googleAnalyticsTokens"] =
              SetKey(SetKey(@, "accessToken", new_access_token),
                     "expiresAt", expires_at)]

\* the I/O _update_config_file performs
UpdateIO(cfg, p) ==
    IF cfg.kind # "doc" \/ p = "read_fail" THEN <<"persist_read">>
    ELSE IF "googleAnalyticsTokens" \notin DOMAIN cfg.doc THEN <<"persist_read">>
    ELSE <<"persist_read", "persist_write">>

----------------------------------------------------------------------------
(* Loading a credential record from the config source *)

\* what _try_oauth_authentication hands back: the credentials (or None),
\* the config source and token counter it leaves, and the I/O it performed
Loaded(credentials, cfg, n, io) ==
    [credentials |-> credentials, config |-> cfg, issued |-> n, io |-> io]

\* credentials.refresh(Request()) succeeded: a new token, expiring expires_in
\* after the response
Refreshed(credentials, n, t, env) ==
    [credentials EXCEPT !.token = AccessToken(n + 1),
                        !.expiry = t + env.expires_in]

\* mutant of Incomplete: client_secret left out of the all([...]) check
IncompleteButForSecret(oauth_config, tokens) ==
    \/ GetStr(tokens, "accessToken") = ""
    \/ GetStr(tokens, "refreshToken") = ""
    \/ GetStr(oauth_config, "clientId") = ""

\* "if not all([access_token, refresh_token, client_id, client_secret])"
Incomplete(oauth_config, tokens) ==
    \/ GetStr(tokens, "accessToken") = ""
    \/ GetStr(tokens, "refreshToken") = ""
    \/ GetStr(oauth_config, "clientId") = ""
    \/ GetStr(oauth_config, "clientSecret") = ""

\* the part of both _try_oauth_authentication up to the Credentials(...) call:
\* None when the file cannot be loaded or is incomplete
ParseConfig(cfg) ==
    IF cfg.kind # "doc" THEN None
    ELSE LET oauth_config == GetSection(cfg.doc, "googleOAuthCredentials")
             tokens == GetSection(cfg.doc, "googleAnalyticsTokens")
             expires_at == GetInt(tokens, "expiresAt")
         IN  IF DOMAIN oauth_config = {} \/ DOMAIN tokens = {} THEN None
             ELSE IF Incomplete(oauth_config, tokens) THEN None
             ELSE Credentials(GetStr(tokens, "accessToken"),
                              GetStr(tokens, "refreshToken"),
                              GetStr(oauth_config, "clientId"),
                              GetStr(oauth_config, "clientSecret"),
                              IF TruthyInt(expires_at)
                                  THEN utcfromtimestamp(expires_at)
                                  ELSE NoExpiry)

\* expires_at as _try_oauth_authentication reads it
ExpiresAt(cfg) == GetInt(GetSection(cfg.doc, "googleAnalyticsTokens"), "expiresAt")

\* auth.py: should_refresh
auth_should_refresh(expires_at, credentials, t) ==
    IF TruthyInt(expires_at) /\ ~Expired(credentials, t)
        THEN expires_at - t < LOOKAHEAD
        ELSE ~TruthyInt(expires_at) \/ Expired(credentials, t)

\* utils.py: "if not expires_at or credentials.expired"
utils_should_refresh(expires_at, credentials, t) ==
    ~TruthyInt(expires_at) \/ Expired(credentials, t)

\* mutant of RefreshAndPersist: a failed write-back reaches the except clause
\* around the refresh, which gives up the credentials
RefreshAndPersistOrFail(credentials, cfg, n, t, offset, env) ==
    LET fresh == Refreshed(credentials, n, t, env)
        new_expires_at == timestamp(fresh.expiry, offset)
    IN  Loaded(IF env.persist = "ok" THEN fresh ELSE None,
               _update_config_file(cfg, fresh.token, new_expires_at, env.persist),
               n + 1,
               <<"read", "refresh">> \o UpdateIO(cfg, env.persist))

\* the successful refresh and the write-back that follows it
RefreshAndPersist(credentials, cfg, n, t, offset, env) ==
    LET fresh == Refreshed(credentials, n, t, env)
        new_expires_at == timestamp(fresh.expiry, offset)
    IN  Loaded(fresh,
               _update_config_file(cfg, fresh.token, new_expires_at, env.persist),
               n + 1,
               <<"read", "refresh">> \o UpdateIO(cfg, env.persist))

\* auth._try_oauth_authentication
auth_try_oauth_authentication(cfg, n, t, offset, env) ==
    LET credentials == ParseConfig(cfg)
    IN  IF credentials = None THEN Loaded(None, cfg, n, <<"read">>)
        ELSE IF ~auth_should_refresh(ExpiresAt(cfg), credentials, t)
            THEN Loaded(credentials, cfg, n, <<"read">>)
        ELSE IF env.refresh = "fail"
            \* "Don't fail here - return the credentials"
            THEN Loaded(credentials, cfg, n, <<"read", "refresh">>)
        ELSE RefreshAndPersist(credentials, cfg, n, t, offset, env)

\* utils._try_oauth_authentication
utils_try_oauth_authentication(cfg, n, t, offset, env) ==
    LET credentials == ParseConfig(cfg)
    IN  IF credentials = None THEN Loaded(None, cfg, n, <<"read">>)
        ELSE IF ~utils_should_refresh(ExpiresAt(cfg), credentials, t)
            THEN Loaded(credentials, cfg, n, <<"read">>)
        ELSE IF env.refresh = "fail"
            \* "Failed to refresh token": return None
            THEN Loaded(None, cfg, n, <<"read", "refresh">>)
        ELSE RefreshAndPersist(credentials, cfg, n, t, offset, env)

----------------------------------------------------------------------------
(* Obtaining credentials *)

\* the outcome of one create_credentials call: what it returned (None when
\* it raised), the cache, config source and token counter it leaves, the I/O
\* it performed and the branch it took
Obtained(ret, raised, cache, cfg, n, io, path) ==
    [ret |-> ret, raised |-> raised, cache |-> cache, config |-> cfg,
     issued |-> n, io |-> io, path |-> path]

\* "Fallback to Application Default Credentials": google.auth.default() either
\* resolves a credential, which is cached, or raises DefaultCredentialsError
Fallback(cache, cfg, n, io, env) ==
    IF env.default = "ok"
        THEN Obtained(DefaultCredentials, FALSE, DefaultCredentials, cfg, n,
                      io \o <<"default">>, "default")
        ELSE Obtained(None, TRUE, cache, cfg, n, io \o <<"default">>, "default")

\* auth.create_credentials(config_path, force_refresh)
create_credentials(path, force_refresh, cache, cfg, n, t, offset, env) ==
    IF ~force_refresh /\ cache # None /\ ~Expired(cache, t)
        THEN Obtained(cache, FALSE, cache, cfg, n, <<>>, "cached")
    ELSE IF path # ""
        THEN LET r == auth_try_oauth_authentication(cfg, n, t, offset, env)
             IN  IF r.credentials # None
                     THEN Obtained(r.credentials, FALSE, r.credentials,
                                   r.config, r.issued, r.io, "oauth")
                     ELSE Fallback(cache, r.config, r.issued, r.io, env)
    ELSE Fallback(cache, cfg, n, <<>>, env)

\* utils._create_credentials() past the cache test: the config file, then
\* Application Default Credentials
utils_load_credentials(path, cache, cfg, n, t, offset, env) ==
    IF path # ""
        THEN LET r == utils_try_oauth_authentication(cfg, n, t, offset, env)
             IN  IF r.credentials # None
                     THEN Obtained(r.credentials, FALSE, r.credentials,
                                   r.config, r.issued, r.io, "oauth")
                     ELSE Fallback(cache, r.config, r.issued, r.io, env)
        ELSE Fallback(cache, cfg, n, <<>>, env)

\* mutant of utils_create_credentials: the cache is never consulted
utils_create_credentials_uncached(path, cache, cfg, n, t, offset, env) ==
    utils_load_credentials(path, cache, cfg, n, t, offset, env)

\* utils._create_credentials(), with path the value of _get_config_path()
utils_create_credentials(path, cache, cfg, n, t, offset, env) ==
    IF cache # None /\ ~Expired(cache, t)
        THEN Obtained(cache, FALSE, cache, cfg, n, <<>>, "cached")
        ELSE utils_load_credentials(path, cache, cfg, n, t, offset, env)

----------------------------------------------------------------------------
(* The cached clients of utils.py *)

\* AnalyticsAdminServiceAsyncClient(credentials=creds) /
\* BetaAnalyticsDataAsyncClient(credentials=creds)
Client(surface, creds) ==
    [kind |-> "client", surface |-> surface, credentials |-> creds]

\* the outcome of one create_*_api_client call
Created(ret, raised, client, r, io, built) ==
    [ret |-> ret, raised |-> raised, client |-> client, cache |-> r.cache,
     config |-> r.config, issued |-> r.issued, io |-> io, built |-> built]

\* the environment may let a refresh succeed only while tokens are left
Allowed(env, n) == env.refresh = "ok" => n < MaxIssued

\* the outcomes of one utils._create_credentials() call over everything the
\* environment may decide during it
CredentialOutcomes(path, cache, cfg, n, t, offset) ==
    {utils_create_credentials(path, cache, cfg, n, t, offset, env) :
         env \in {e \in Env : Allowed(e, n)}}

\* "Creating new ... API client": r is the outcome of the _create_credentials()
\* call, io the I/O of the calls before it
BuildClient(surface, client, r, io) ==
    IF r.raised
        THEN Created(None, TRUE, client, r, io \o r.io, FALSE)
        ELSE Created(Client(surface, r.ret), FALSE, Client(surface, r.ret),
                     r, io \o r.io, TRUE)

\* the outcomes of utils.create_admin_api_client / create_data_api_client
\* (the same code for the two surfaces)
create_api_client(surface, client, path, cache, cfg, n, t, offset) ==
    IF client # None
        THEN UNION {
            IF r1.raised
                THEN {Created(None, TRUE, client, r1, r1.io, FALSE)}
            ELSE IF ~Expired(r1.ret, t)
                \* "Reusing cached ... API client"
                THEN {Created(client, FALSE, client, r1, r1.io, FALSE)}
            ELSE {BuildClient(surface, client, r2, r1.io) :
                      r2 \in CredentialOutcomes(path, r1.cache, r1.config,
                                                r1.issued, t, offset)}
            : r1 \in CredentialOutcomes(path, cache, cfg, n, t, offset)}
        ELSE {BuildClient(surface, client, r, <<>>) :
                  r \in CredentialOutcomes(path, cache, cfg, n, t, offset)}

----------------------------------------------------------------------------
(* The credential store as a state machine *)

\* time zone offsets of the process (local time minus UTC, in ticks)
TimeZones == {-2, 0, 2}

\* what the `last` variable records of a completed call
Call(op, force_refresh, r, built) ==
    [op |-> op, force_refresh |-> force_refresh, ret |-> r.ret,
     raised |-> r.raised, io |-> r.io, built |-> built, at |-> now,
     before |-> [config |-> config,
                 auth_cached_credentials |-> auth_cached_credentials,
                 cached_credentials |-> cached_credentials,
                 cached_admin_client |-> cached_admin_client,
                 cached_data_client |-> cached_data_client]]

NoCall == [op |-> "none"]

\* retry_on_auth_error and construct_property_rn before they are called
RetryIdle ==
    /\ rpc = "idle" /\ max_retries = 0 /\ attempt = 0
    /\ last_exception = None /\ outcome = None /\ log = <<>>

PropIdle == property_value = None /\ property_rn = None

\* no reporting tool has been called
ToolIdle ==
    /\ tool_call = None /\ tool_pc = "idle" /\ request = None
    /\ tool_response = None /\ result = None /\ tool_log = <<>>

\* no server process has opened the shared config file
FileIdle == file = <<>> /\ srv = <<>> /\ versions = {}

\* the modules as imported: empty caches, any config source, any time zone;
\* without a config path the file is never opened
Init ==
    /\ module \in {"auth", "utils"}
    /\ \/ config_path = "config.json" /\ config \in ConfigSources
       \/ config_path = "" /\ config = Missing
    /\ now = StartTime
    /\ tz \in TimeZones
    /\ issued = 0
    /\ auth_cached_credentials = None
    /\ cached_credentials = None
    /\ cached_admin_client = None
    /\ cached_data_client = None
    /\ last = NoCall
    /\ RetryIdle
    /\ PropIdle
    /\ ToolIdle
    /\ FileIdle

\* auth.create_credentials(config_path, force_refresh)
AuthCreateCredentials ==
    /\ module = "auth"
    /\ \E force_refresh \in BOOLEAN :
        \E r \in {create_credentials(config_path, force_refresh,
                                     auth_cached_credentials, config, issued,
                                     now, tz, env) :
                      env \in {e \in Env : Allowed(e, issued)}} :
            /\ auth_cached_credentials' = r.cache
            /\ config' = r.config
            /\ issued' = r.issued
            /\ last' = Call("auth.create_credentials", force_refresh, r, FALSE)
            /\ UNCHANGED <<module, config_path, now, tz, cacheVars, retryVars, propVars, toolVars, fileVars>>

\* auth.invalidate_cache()
AuthInvalidateCache ==
    /\ module = "auth"
    /\ auth_cached_credentials' = None
    /\ last' = Call("auth.invalidate_cache", FALSE,
                    [ret |-> None, raised |-> FALSE, io |-> <<>>], FALSE)
    /\ UNCHANGED <<module, config, config_path, now, tz, issued, cacheVars, retryVars, propVars, toolVars, fileVars>>

\* utils._create_credentials()
UtilsCreateCredentials ==
    /\ module = "utils"
    /\ \E r \in CredentialOutcomes(config_path, cached_credentials, config,
                                   issued, now, tz) :
        /\ cached_credentials' = r.cache
        /\ config' = r.config
        /\ issued' = r.issued
        /\ last' = Call("utils._create_credentials", FALSE, r, FALSE)
        /\ UNCHANGED <<module, config_path, now, tz, auth_cached_credentials,
                       cached_admin_client, cached_data_client, retryVars, propVars, toolVars, fileVars>>

\* utils.create_admin_api_client()
CreateAdminApiClient ==
    /\ module = "utils"
    /\ \E r \in create_api_client("admin", cached_admin_client, config_path,
                               cached_credentials, config, issued, now, tz) :
        /\ cached_admin_client' = r.client
        /\ cached_credentials' = r.cache
        /\ config' = r.config
        /\ issued' = r.issued
        /\ last' = Call("utils.create_admin_api_client", FALSE, r, r.built)
        /\ UNCHANGED <<module, config_path, now, tz, auth_cached_credentials,
                       cached_data_client, retryVars, propVars, toolVars, fileVars>>

\* utils.create_data_api_client()
CreateDataApiClient ==
    /\ module = "utils"
    /\ \E r \in create_api_client("data", cached_data_client, config_path,
                               cached_credentials, config, issued, now, tz) :
        /\ cached_data_client' = r.client
        /\ cached_credentials' = r.cache
        /\ config' = r.config
        /\ issued' = r.issued
        /\ last' = Call("utils.create_data_api_client", FALSE, r, r.built)
        /\ UNCHANGED <<module, config_path, now, tz, auth_cached_credentials,
                       cached_admin_client, retryVars, propVars, toolVars, fileVars>>

\* mutant of InvalidateCachedCredentials: the reporting client is forgotten
InvalidateCredentialsAndAdminClient ==
    /\ module = "utils"
    /\ cached_credentials' = None
    /\ cached_admin_client' = None
    /\ last' = Call("utils.invalidate_cached_credentials", FALSE,
                    [ret |-> None, raised |-> FALSE, io |-> <<>>], FALSE)
    /\ UNCHANGED <<module, config, config_path, now, tz, issued, auth_cached_credentials,
                   cached_data_client, retryVars, propVars, toolVars, fileVars>>

\* utils.invalidate_cached_credentials()
InvalidateCachedCredentials ==
    /\ module = "utils"
    /\ cached_credentials' = None
    /\ cached_admin_client' = None
    /\ cached_data_client' = None
    /\ last' = Call("utils.invalidate_cached_credentials", FALSE,
                    [ret |-> None, raised |-> FALSE, io |-> <<>>], FALSE)
    /\ UNCHANGED <<module, config, config_path, now, tz, issued, auth_cached_credentials,
                   retryVars, propVars, toolVars, fileVars>>

\* time passes
Tick ==
    /\ now < StartTime + MaxClock
    /\ now' = now + 1
    /\ UNCHANGED <<module, config, config_path, tz, issued, auth_cached_credentials, last,
                   cacheVars, retryVars, propVars, toolVars, fileVars>>

\* a process imports either tools/utils.py, as the server and its tools do, or
\* the stand-alone auth.py, which no other module of the repository imports
Next ==
    \/ AuthCreateCredentials
    \/ AuthInvalidateCache
    \/ UtilsCreateCredentials
    \/ CreateAdminApiClient
    \/ CreateDataApiClient
    \/ InvalidateCachedCredentials
    \/ Tick

Spec == Init /\ [][Next]_vars

----------------------------------------------------------------------------
(* utils.retry_on_auth_error *)

\* the keywords of the "authentication/authorization error" test
AuthKeywords ==
    {"401", "unauthorized", "unauthenticated", "invalid authentication",
     "authentication credential", "access token", "expired", "refresh"}

\* str.lower() on the fragments a message is made of
Lower(f) == IF f = "UNAUTHENTICATED" THEN "unauthenticated" ELSE f

\* google.api_core.exceptions: the HTTP status code of an error class (0: not
\* an API error).  Unauthenticated derives from Unauthorized, not the reverse.
Code(type) ==
    CASE type = "Unauthenticated" -> "401"
      [] type = "Unauthorized" -> "401"
      [] type = "Forbidden" -> "403"
      [] type = "InternalServerError" -> "500"
      [] OTHER -> ""

\* an error is its class and the fragments its message is made of
Error(type, message) == [kind |-> "error", type |-> type, message |-> message]

\* what an awaited func() may do: return a value or raise
OpOutcomes ==
    {[kind |-> "ok", value |-> v] : v \in {"v1", "v2"}}
    \cup {Error("Unauthenticated", m) : m \in {{}, {"quota exceeded"}, {"expired"}}}
    \cup {Error("Forbidden", m) :
              m \in {{}, {"quota exceeded"}, {"UNAUTHENTICATED"}}
                    \cup {{k} : k \in AuthKeywords}}
    \cup {Error("Unauthorized", m) : m \in {{}, {"expired"}}}
    \cup {Error("InternalServerError", m) : m \in {{}, {"refresh"}}}
    \cup {Error("ValueError", m) : m \in {{}, {"access token"}, {"401"}}}

\* mutant of Caught: "except Exception as e" in place of the two classes
CaughtAnyException(e) == TRUE

\* "except (Unauthenticated, Forbidden) as e"
Caught(e) == e.type \in {"Unauthenticated", "Forbidden"}

\* mutant of error_msg: the message alone, without the status code in front
error_msg_without_code(e) == {Lower(f) : f \in e.message}

\* error_msg = str(e).lower(); GoogleAPICallError.__str__ is "{code} {message}"
error_msg(e) ==
    {Lower(f) : f \in e.message} \cup (IF Code(e.type) = "" THEN {} ELSE {Code(e.type)})

\* mutant of HasAuthKeyword: all() in place of any()
HasEveryAuthKeyword(e) == \A keyword \in AuthKeywords : keyword \in error_msg(e)

\* "any(keyword in error_msg for keyword in [...])"
HasAuthKeyword(e) == \E keyword \in AuthKeywords : keyword \in error_msg(e)

\* the failure is handled as an authentication failure
IsAuthError(e) == Caught(e) /\ HasAuthKeyword(e)

\* mutant of ShouldRetry: "attempt <= max_retries"
ShouldRetryOnceMore(e, n, limit) == IsAuthError(e) /\ n <= limit

\* "if attempt < max_retries": invalidate the caches and try again
ShouldRetry(e, n, limit) == IsAuthError(e) /\ n < limit

\* entries of the log: an invocation of func() with its outcome and the caches
\* as func() left them, or an invalidate_cached_credentials() call
Invoked(out, r) ==
    [ev |-> "call", out |-> out,
     after |-> [cached_credentials |-> r.cache, cached_data_client |-> r.client]]
Invalidated == [ev |-> "invalidate", out |-> None, after |-> None]

\* the wrapped operation asks for the reporting client before it calls the
\* backend, as the report tools do (create_data_api_client().run_report(...))
OpClients ==
    create_api_client("data", cached_data_client, config_path, cached_credentials,
                      config, issued, now, tz)

\* the wrapper is called: "last_exception = None", the loop begins
RetryCall ==
    /\ rpc = "idle"
    /\ \E n \in -1 .. MaxRetries : max_retries' = n
    /\ rpc' = "loop"
    /\ attempt' = 0
    /\ last_exception' = None
    /\ UNCHANGED <<outcome, log, credVars, cacheVars, propVars, toolVars, fileVars>>

\* one iteration of "for attempt in range(max_retries + 1)": await func(),
\* then the except clauses
RetryAttempt ==
    /\ rpc = "loop"
    /\ attempt < max_retries + 1
    /\ \E r \in OpClients :
       \E out \in (IF r.raised THEN {Error("DefaultCredentialsError", {})}
                                ELSE OpOutcomes) :
        /\ config' = r.config
        /\ issued' = r.issued
        /\ IF out.kind = "ok"
               THEN /\ rpc' = "returned"
                    /\ outcome' = out
                    /\ log' = Append(log, Invoked(out, r))
                    /\ cached_credentials' = r.cache
                    /\ cached_data_client' = r.client
                    /\ UNCHANGED <<cached_admin_client, attempt, last_exception>>
           ELSE IF ShouldRetry(out, attempt, max_retries)
               \* invalidate_cached_credentials(); continue
               THEN /\ last_exception' = out
                    /\ cached_credentials' = None
                    /\ cached_admin_client' = None
                    /\ cached_data_client' = None
                    /\ log' = log \o <<Invoked(out, r), Invalidated>>
                    /\ attempt' = attempt + 1
                    /\ UNCHANGED <<rpc, outcome>>
           \* raise
           ELSE /\ last_exception' = (IF Caught(out) THEN out ELSE last_exception)
                /\ rpc' = "raised"
                /\ outcome' = out
                /\ log' = Append(log, Invoked(out, r))
                /\ cached_credentials' = r.cache
                /\ cached_data_client' = r.client
                /\ UNCHANGED <<cached_admin_client, attempt>>
    /\ UNCHANGED <<module, config_path, now, tz, auth_cached_credentials, last,
                   max_retries, propVars, toolVars, fileVars>>

\* the loop ends without a return or a raise: "if last_exception: raise
\* last_exception", else the function falls off its end and returns None
RetryLoopExit ==
    /\ rpc = "loop"
    /\ ~(attempt < max_retries + 1)
    /\ IF last_exception # None
           THEN rpc' = "raised" /\ outcome' = last_exception
           ELSE rpc' = "returned" /\ outcome' = [kind |-> "ok", value |-> "None"]
    /\ UNCHANGED <<max_retries, attempt, last_exception, log, credVars, cacheVars,
                   propVars, toolVars, fileVars>>

\* the wrapper is called once, in a process whose tools use tools/utils.py
InitRetry ==
    /\ module = "utils"
    /\ config_path = "config.json"
    /\ config \in {Missing,
                   Doc(Document(OAuthFull, TokensFull(StartTime + LOOKAHEAD + 3)))}
    /\ now = StartTime
    /\ tz = 0
    /\ issued = 0
    /\ auth_cached_credentials = None
    /\ cached_credentials = None
    /\ cached_admin_client = None
    /\ cached_data_client = None
    /\ last = NoCall
    /\ RetryIdle
    /\ PropIdle
    /\ ToolIdle
    /\ FileIdle

NextRetry ==
    \/ RetryCall
    \/ RetryAttempt
    \/ RetryLoopExit

SpecRetry == InitRetry /\ [][NextRetry]_vars

----------------------------------------------------------------------------
(* utils.construct_property_rn *)

\* A string is a sequence of symbols.  "properties" stands for that word, "a"
\* for any letter, "S2" for SUPERSCRIPT TWO, a character for which
\* str.isdigit() is true and int() raises ValueError.
Digits == <<"0", "1", "2", "3", "4", "5", "6", "7", "8", "9">>

Alphabet == {"0", "1", "S2", " ", "-", ".", "a", "/", "properties"}

IsDecimal(ch) == \E i \in 1 .. 10 : Digits[i] = ch

DigitValue(ch) == (CHOOSE i \in 1 .. 10 : Digits[i] = ch) - 1

\* str.strip()
RECURSIVE lstrip(_)
lstrip(str) == IF str # <<>> /\ Head(str) = " " THEN lstrip(Tail(str)) ELSE str

RECURSIVE rstrip(_)
rstrip(str) ==
    IF str # <<>> /\ str[Len(str)] = " "
        THEN rstrip(SubSeq(str, 1, Len(str) - 1))
        ELSE str

\* mutant of strip: only leading whitespace is removed
strip_left_only(str) == lstrip(str)

strip(str) == rstrip(lstrip(str))

\* str.isdigit(): not empty, and every character is a digit character
isdigit(str) ==
    str # <<>> /\ \A i \in 1 .. Len(str) : IsDecimal(str[i]) \/ str[i] = "S2"

\* int(str) accepts the string (str.isdigit() already holds)
IntAccepts(str) == \A i \in 1 .. Len(str) : IsDecimal(str[i])

\* int(str) of a string of decimal digits
RECURSIVE ParseInt(_)
ParseInt(str) ==
    IF str = <<>> THEN 0
    ELSE 10 * ParseInt(SubSeq(str, 1, Len(str) - 1)) + DigitValue(str[Len(str)])

\* str(n) of an integer: no leading zeros, "-" for a negative number
RECURSIVE FormatNat(_)
FormatNat(n) ==
    IF n < 10 THEN <<Digits[n + 1]>>
    ELSE Append(FormatNat(n \div 10), Digits[(n % 10) + 1])

FormatInt(n) == IF n < 0 THEN <<"-">> \o FormatNat(0 - n) ELSE FormatNat(n)

\* str.startswith("properties/")
startswith_properties(str) ==
    Len(str) >= 2 /\ str[1] = "properties" /\ str[2] = "/"

\* str.split("/")[-1]: what follows the last "/"
RECURSIVE last_part(_)
last_part(str) ==
    IF \E i \in 1 .. Len(str) : str[i] = "/"
        THEN last_part(Tail(str))
        ELSE str

StrArg(str) == [type |-> "str", str |-> str, int |-> 0]
IntArg(n) == [type |-> "int", str |-> <<>>, int |-> n]

ValueError == [kind |-> "error", type |-> "ValueError", value |-> <<>>]
ResourceName(n) ==
    [kind |-> "ok", type |-> "str", value |-> <<"properties", "/">> \o FormatInt(n)]

\* construct_property_rn(property_value): the resource name, or ValueError
construct_property_rn(arg) ==
    IF arg.type = "int" THEN ResourceName(arg.int)
    ELSE LET stripped == strip(arg.str)
         IN  IF isdigit(stripped)
                 THEN IF IntAccepts(stripped)
                          THEN ResourceName(ParseInt(stripped))
                          ELSE ValueError
             ELSE IF startswith_properties(stripped)
                 THEN LET numeric_part == last_part(stripped)
                      IN  IF isdigit(numeric_part)
                              THEN IF IntAccepts(numeric_part)
                                       THEN ResourceName(ParseInt(numeric_part))
                                       ELSE ValueError
                              ELSE ValueError
             ELSE ValueError

RECURSIVE Strings(_)
Strings(n) ==
    IF n = 0 THEN {<<>>}
    ELSE LET Shorter == Strings(n - 1)
         IN  Shorter \cup {Append(str, ch) : str \in Shorter, ch \in Alphabet}

\* the arguments of the model: every string of at most MaxLen symbols, the
\* prefix followed by every such string, and every integer up to MaxInt
PropertyValues ==
    {StrArg(str) : str \in Strings(MaxLen)}
    \cup {StrArg(<<"properties", "/">> \o str) : str \in Strings(MaxLen - 1)}
    \cup {IntArg(n) : n \in (0 - MaxInt) .. MaxInt}

\* a tool calls construct_property_rn(property_id)
ConstructPropertyRn ==
    /\ property_rn = None
    /\ property_rn' = construct_property_rn(property_value)
    /\ UNCHANGED <<property_value, credVars, cacheVars, retryVars, toolVars, fileVars>>

InitProp ==
    /\ property_value \in PropertyValues
    /\ property_rn = None
    /\ module = "utils"
    /\ config_path = ""
    /\ config = Missing
    /\ now = StartTime
    /\ tz = 0
    /\ issued = 0
    /\ auth_cached_credentials = None
    /\ cached_credentials = None
    /\ cached_admin_client = None
    /\ cached_data_client = None
    /\ last = NoCall
    /\ RetryIdle
    /\ ToolIdle
    /\ FileIdle

NextProp == ConstructPropertyRn

SpecProp == InitProp /\ [][NextProp]_vars

----------------------------------------------------------------------------
(* Properties of retry_on_auth_error *)

Calls == {i \in 1 .. Len(log) : log[i].ev = "call"}
Invalidations == {i \in 1 .. Len(log) : log[i].ev = "invalidate"}
Finished == rpc \in {"returned", "raised"}

\* the i-th entry of the log is an invocation that raised
Failed(i) == log[i].ev = "call" /\ log[i].out.kind = "error"

\* C1: with max_retries = 1, once the first invocation has failed with an
\* Unauthenticated (401) error the wrapper invalidates the caches exactly once
\* and invokes the operation a second and last time; when that invocation
\* succeeds the wrapper returns its value.
C1_RetryOnceThenReturn ==
    (max_retries = 1 /\ Len(log) >= 1 /\ Failed(1)
        /\ log[1].out.type = "Unauthenticated")
    => /\ Len(log) >= 2 /\ log[2] = Invalidated
       /\ Invalidations = {2}
       /\ Finished => /\ Len(log) = 3 /\ Calls = {1, 3}
                      /\ log[3].out.kind = "ok" =>
                             rpc = "returned" /\ outcome = log[3].out

C1_Witness ==
    /\ max_retries = 1 /\ rpc = "returned" /\ Len(log) = 3
    /\ Failed(1) /\ log[1].out.type = "Unauthenticated"
    /\ outcome = [kind |-> "ok", value |-> "v2"]

\* the error does not pass the test of lines 95-104: it is not an
\* Unauthenticated or Forbidden error, or its text has none of the keywords
NotAuthFailure(e) ==
    \/ e.type \notin {"Unauthenticated", "Forbidden"}
    \/ /\ Code(e.type) \notin AuthKeywords
       /\ \A f \in e.message : Lower(f) \notin AuthKeywords

\* C2: an invocation that fails with an error that is not an authentication
\* failure is the last one: the same error reaches the caller, nothing is
\* invalidated after it and the caches stay as the operation left them.
C2_NonAuthErrorNotRetried ==
    \A i \in 1 .. Len(log) :
        (max_retries >= 0 /\ Failed(i) /\ NotAuthFailure(log[i].out))
        => /\ i = Len(log)
           /\ rpc = "raised" /\ outcome = log[i].out
           /\ cached_credentials = log[i].after.cached_credentials
           /\ cached_data_client = log[i].after.cached_data_client

C2_Witness ==
    /\ max_retries = 2 /\ rpc = "raised" /\ Len(log) = 1
    /\ outcome = Error("InternalServerError", {"refresh"})
    /\ cached_data_client # None

\* C3: with max_retries = n >= 0 the operation is invoked at most n + 1 times
\* and the caches are invalidated at most n times, and an error that reaches
\* the caller is the error of the last invocation.  The call terminates: it
\* can always take a step, and every step either ends it or starts the next
\* of the at most n + 1 iterations.
C3_BoundedRetry ==
    /\ [](max_retries >= 0 =>
            /\ Cardinality(Calls) <= max_retries + 1
            /\ Cardinality(Invalidations) <= max_retries
            /\ rpc = "raised" =>
                   /\ Len(log) >= 1 /\ Failed(Len(log))
                   /\ outcome = log[Len(log)].out)
    /\ [](rpc = "loop" => ENABLED NextRetry)
    /\ [][rpc = "loop" =>
            \/ rpc' \in {"returned", "raised"}
            \/ attempt' = attempt + 1 /\ attempt' <= max_retries]_vars

C3_Witness ==
    /\ max_retries = 2 /\ rpc = "raised"
    /\ Cardinality(Calls) = 3 /\ Cardinality(Invalidations) = 2
    /\ IsAuthError(outcome)

\* the number of invocations before the i-th entry of the log
AttemptOf(i) == Cardinality({j \in Calls : j < i})

\* the failure has status code 401 or 403, or its message contains one of the
\* six keywords the specification lists
SpecAuthFailure(e) ==
    \/ Code(e.type) \in {"401", "403"}
    \/ \E f \in e.message :
           Lower(f) \in {"unauthorized", "unauthenticated", "invalid authentication",
                         "access token", "expired", "refresh"}

\* C4 as stated: status code 401 or 403, or one of the keywords, is enough for
\* the failure to be followed by an invalidation and another attempt.
C4_Original ==
    \A i \in 1 .. Len(log) :
        (Failed(i) /\ SpecAuthFailure(log[i].out) /\ AttemptOf(i) < max_retries)
        => i < Len(log) /\ log[i + 1] = Invalidated

\* C4 amended: a failure of attempt n < max_retries is followed by an
\* invalidation and another attempt exactly when it is an Unauthenticated or
\* Forbidden error whose lower-cased text, which starts with the status code,
\* contains "401" or one of the keywords.
C4_Amended ==
    \A i \in 1 .. Len(log) :
        (Failed(i) /\ AttemptOf(i) < max_retries)
        => ((i < Len(log) /\ log[i + 1] = Invalidated)
            <=> ~NotAuthFailure(log[i].out))

C4_Witness ==
    /\ Len(log) >= 2 /\ Failed(1) /\ log[2] = Invalidated
    /\ log[1].out = Error("Forbidden", {"access token"})

----------------------------------------------------------------------------
(* Properties of the credential store *)

\* the last call was a credential acquisition
CredOp == last.op \in {"auth.create_credentials", "utils._create_credentials"}

\* the credential cache of the module that served the last call, before the
\* call and now
CacheBefore ==
    IF last.op = "auth.create_credentials"
        THEN last.before.auth_cached_credentials
        ELSE last.before.cached_credentials

CacheNow ==
    IF last.op = "auth.create_credentials"
        THEN auth_cached_credentials
        ELSE cached_credentials

\* the last call performed the I/O step x
DidIO(x) == \E i \in 1 .. Len(last.io) : last.io[i] = x

\* the last call found a cached, unexpired record and was not forced past it
CacheWasFresh ==
    ~last.force_refresh /\ CacheBefore # None /\ ~Expired(CacheBefore, last.at)

\* C5: with force_refresh false and a cached, unexpired record, the call
\* returns that record without any I/O and leaves cache and config source
\* unchanged.
C5_CacheHitNoIO ==
    (CredOp /\ CacheWasFresh)
    => /\ ~last.raised
       /\ last.ret = CacheBefore
       /\ last.io = <<>>
       /\ CacheNow = CacheBefore
       /\ config = last.before.config

C5_Witness ==
    /\ last.op = "utils._create_credentials" /\ CacheWasFresh
    /\ CacheBefore.kind = "oauth" /\ last.ret = CacheBefore

\* C6: after invalidate_cached_credentials() the cached credentials and both
\* cached clients are empty, after auth.invalidate_cache() the cached
\* credentials of that module are; a second invalidation changes nothing.
C6_InvalidateClearsAll ==
    /\ [](last.op = "utils.invalidate_cached_credentials" =>
            /\ cached_credentials = None
            /\ cached_admin_client = None
            /\ cached_data_client = None)
    /\ [](last.op = "auth.invalidate_cache" => auth_cached_credentials = None)
    /\ [][(/\ last.op \in {"utils.invalidate_cached_credentials", "auth.invalidate_cache"}
           /\ last'.op = last.op)
          => /\ cacheVars' = cacheVars
             /\ auth_cached_credentials' = auth_cached_credentials
             /\ config' = config]_vars

C6_Witness ==
    /\ last.op = "utils.invalidate_cached_credentials"
    /\ last.before.cached_credentials # None
    /\ last.before.cached_admin_client # None
    /\ last.before.cached_data_client # None
    /\ cached_data_client = None

\* C7: when the config source is missing, unreadable, not JSON or lacks a
\* required section or field, a call that gets past the cache reads nothing but
\* the config source and the default-credential provider, leaves the config
\* source alone, and unless that provider itself fails returns and caches the
\* default credential.
C7_DefectiveConfigFallsBack ==
    (CredOp /\ ~CacheWasFresh /\ ~Complete(last.before.config))
    => /\ last.io = (IF config_path # "" THEN <<"read", "default">> ELSE <<"default">>)
       /\ config = last.before.config
       /\ ~last.raised => last.ret = DefaultCredentials /\ CacheNow = DefaultCredentials
       /\ last.raised => CacheNow = CacheBefore

C7_Witness ==
    /\ last.op = "utils._create_credentials"
    /\ last.before.config.kind = "doc"
    /\ DOMAIN last.before.config.doc = {"theme", "googleOAuthCredentials"}
    /\ last.ret = DefaultCredentials /\ cached_credentials = DefaultCredentials

\* the last call attempted a token refresh that failed (a refresh that
\* succeeds is always followed by _update_config_file)
RefreshFailed == DidIO("refresh") /\ ~DidIO("persist_read")

\* C8: when a complete record is loaded and its refresh fails, the call
\* returns the record built from the config source.
C8_StaleRecordOnRefreshFailure ==
    (CredOp /\ Complete(last.before.config) /\ RefreshFailed)
    => ~last.raised /\ last.ret = ParseConfig(last.before.config)

\* the last call wrote the config source
Persisted == CredOp /\ config # last.before.config

\* the document d2 differs from d1 at most in accessToken and expiresAt of
\* googleAnalyticsTokens
OnlyTokenAndExpiryChanged(d1, d2) ==
    /\ DOMAIN d2 = DOMAIN d1
    /\ \A k \in DOMAIN d1 \ {"googleAnalyticsTokens"} : d2[k] = d1[k]
    /\ "googleAnalyticsTokens" \in DOMAIN d1 =>
           LET t1 == d1["googleAnalyticsTokens"]
               t2 == d2["googleAnalyticsTokens"]
           IN  /\ DOMAIN t2 = DOMAIN t1 \cup {"accessToken", "expiresAt"}
               /\ \A k \in DOMAIN t1 \ {"accessToken", "expiresAt"} : t2[k] = t1[k]

\* C9: persisting a refreshed token changes only accessToken and expiresAt,
\* and re-loading the config source yields a record with the token and the
\* expiry of the refreshed credential.
C9_PersistRoundTrip ==
    Persisted
    => /\ config.kind = "doc" /\ last.before.config.kind = "doc"
       /\ OnlyTokenAndExpiryChanged(last.before.config.doc, config.doc)
       /\ ParseConfig(config).token = last.ret.token
       /\ ParseConfig(config).expiry = last.ret.expiry

\* the part of C9 that does not depend on the time zone: only the two fields
\* change, the token round-trips, and expiresAt holds what line 253 computed
C9_FrameAndToken ==
    Persisted
    => /\ config.kind = "doc" /\ last.before.config.kind = "doc"
       /\ OnlyTokenAndExpiryChanged(last.before.config.doc, config.doc)
       /\ ParseConfig(config).token = last.ret.token
       /\ ExpiresAt(config) = timestamp(last.ret.expiry, tz)

----------------------------------------------------------------------------
(* Properties of construct_property_rn *)

\* the string is made of decimal digits only, and of at least one
AllDecimal(str) == str # <<>> /\ \A i \in 1 .. Len(str) : IsDecimal(str[i])

\* the digits of int(digits): leading zeros dropped
RECURSIVE WithoutLeadingZeros(_)
WithoutLeadingZeros(digits) ==
    IF Len(digits) > 1 /\ Head(digits) = "0"
        THEN WithoutLeadingZeros(Tail(digits))
        ELSE digits

\* str[a .. b] is a string of digits and everything around it is whitespace
PaddedDigits(str, a, b) ==
    /\ a <= b
    /\ AllDecimal(SubSeq(str, a, b))
    /\ \A i \in 1 .. Len(str) : (i < a \/ i > b) => str[i] = " "

Named(digits) == [kind |-> "ok", type |-> "str", value |-> <<"properties", "/">> \o digits]

\* the result for integers and for (padded) strings of digits: "properties/{int(N)}"
NumericInputsNamed ==
    /\ property_value.type = "int" => property_rn = Named(FormatInt(property_value.int))
    /\ property_value.type = "str" =>
           \A a, b \in 1 .. Len(property_value.str) :
               PaddedDigits(property_value.str, a, b)
               => property_rn = Named(WithoutLeadingZeros(SubSeq(property_value.str, a, b)))

\* the argument is "properties/" followed by digits only
PrefixedDigits ==
    /\ property_value.type = "str"
    /\ startswith_properties(property_value.str)
    /\ AllDecimal(SubSeq(property_value.str, 3, Len(property_value.str)))

InvalidPropertyValue ==
    \/ property_value.type = "int" /\ property_value.int < 0
    \/ /\ property_value.type = "str"
       /\ LET trimmed == strip(property_value.str)
          IN  /\ ~AllDecimal(trimmed)
              /\ ~(/\ startswith_properties(trimmed)
                   /\ AllDecimal(SubSeq(trimmed, 3, Len(trimmed))))

\* C11: construct_property_rn raises ValueError, and returns no resource name,
\* for every non-numeric, empty, whitespace-only, negative, decimal or
\* alphanumeric input and for every input with a malformed prefix.
C11_InvalidInputsRejected ==
    (property_rn # None /\ InvalidPropertyValue) => property_rn = ValueError

\* C12: construct_property_rn raises ValueError for "properties/<digits>".
C12_FullResourceNameRejected ==
    (property_rn # None /\ PrefixedDigits) => property_rn = ValueError

----------------------------------------------------------------------------
(* Properties of the cached clients and of the refresh decision *)

\* the last call was create_admin_api_client or create_data_api_client
ClientOp ==
    last.op \in {"utils.create_admin_api_client", "utils.create_data_api_client"}

\* the cached client of the surface the last call served, before the call
ClientBefore ==
    IF last.op = "utils.create_admin_api_client"
        THEN last.before.cached_admin_client
        ELSE last.before.cached_data_client

\* C19: a create_*_api_client call that returns the cached client returns a
\* client whose own credential is unexpired, and a call that finds the cached
\* client's credential expired builds a new client.
C19_ReusedClientUnexpired ==
    (ClientOp /\ ~last.raised)
    => /\ ~last.built => ~Expired(last.ret.credentials, last.at)
       /\ (ClientBefore # None /\ Expired(ClientBefore.credentials, last.at))
          => last.built

\* the last call got past the cache and built a record from a complete document
LoadedFromConfig == CredOp /\ DidIO("read") /\ Complete(last.before.config)

\* the record had no expiresAt, or it expires less than 5 minutes after the call
WithinLookahead ==
    \/ "expiresAt" \notin DOMAIN GetSection(last.before.config.doc, "googleAnalyticsTokens")
    \/ ExpiresAt(last.before.config) - last.at < LOOKAHEAD

\* C20: a record loaded from the config source is refreshed if and only if it
\* has no expiresAt or expires less than 300 seconds after the current time.
C20_RefreshIffWithinLookahead ==
    LoadedFromConfig => (DidIO("refresh") <=> WithinLookahead)

----------------------------------------------------------------------------
(* The reporting tools: the response and its quota *)

\* QuotaStatus values: nothing counted, little used, exactly 90% used, just
\* above 90% used, and the buckets the key test of the scan is there for: one
\* without remaining and one without consumed
QuotaStatuses ==
    {[consumed |-> 0, remaining |-> 0], [consumed |-> 100, remaining |-> 9900],
     [consumed |-> 9000, remaining |-> 1000], [consumed |-> 9001, remaining |-> 999],
     [consumed |-> 9001], [remaining |-> 999]}

\* two of the buckets of PropertyQuota, in the order of the message's fields
QuotaNames == <<"tokens_per_day", "tokens_per_hour">>

\* proto_to_dict(response.property_quota): the buckets that are set, in field
\* order, each with the counts that are set; <<>> when the response carries
\* no quota
RECURSIVE QuotaDictsFrom(_)
QuotaDictsFrom(i) ==
    IF i > Len(QuotaNames) THEN {<<>>}
    ELSE LET Rest == QuotaDictsFrom(i + 1)
         IN  Rest \cup {<<SetKey(q, "quota_name", QuotaNames[i])>> \o rest :
                            q \in QuotaStatuses, rest \in Rest}

QuotaDicts == QuotaDictsFrom(1) \ {<<>>}

\* mutant of Exceeds: ">= 0.9"
ExceedsOrEquals(quota_info) ==
    /\ "consumed" \in DOMAIN quota_info /\ "remaining" \in DOMAIN quota_info
    /\ LET total == quota_info.consumed + quota_info.remaining
       IN  total > 0 /\ 10 * quota_info.consumed >= 9 * total

\* '"consumed" in quota_info and "remaining" in quota_info' and then
\* "if total > 0 and (consumed / total) > 0.9": for 32-bit counts the float
\* quotient exceeds the float 0.9 exactly when 10 * consumed > 9 * total
Exceeds(quota_info) ==
    /\ "consumed" \in DOMAIN quota_info /\ "remaining" \in DOMAIN quota_info
    /\ LET total == quota_info.consumed + quota_info.remaining
       IN  total > 0 /\ 10 * quota_info.consumed > 9 * total

\* the warning text names the bucket and gives consumed/total (and the
\* percentage they make)
Warning(quota_info) ==
    [kind |-> "warning", quota_name |-> quota_info.quota_name,
     consumed |-> quota_info.consumed,
     total |-> quota_info.consumed + quota_info.remaining]

RECURSIVE QuotaWarningLast(_)
RECURSIVE QuotaWarning(_)

\* mutant of QuotaWarning: the loop has no break, the last bucket above 90%
\* makes the warning
QuotaWarningLast(quota_dict) ==
    IF quota_dict = <<>> THEN None
    ELSE LET later == QuotaWarningLast(Tail(quota_dict))
         IN  IF later # None THEN later
             ELSE IF Exceeds(Head(quota_dict)) THEN Warning(Head(quota_dict))
             ELSE None

\* the loop over quota_dict.items(), left at the first bucket above 90%
QuotaWarning(quota_dict) ==
    IF quota_dict = <<>> THEN None
    ELSE IF Exceeds(Head(quota_dict)) THEN Warning(Head(quota_dict))
    ELSE QuotaWarning(Tail(quota_dict))

\* rows of a response
Rows == {<<>>, <<[dimensions |-> <<"US">>, metrics |-> <<"5">>]>>}

\* a RunReportResponse / RunRealtimeReportResponse: the quota is there when
\* the request asked for it
Response(rows, quota) ==
    [kind |-> "response", rows |-> rows, row_count |-> Len(rows),
     property_quota |-> quota]

Responses(req) ==
    {Response(rows, quota) :
         rows \in Rows,
         quota \in (IF req.return_property_quota THEN QuotaDicts ELSE {<<>>})}

\* what a tool returns
Ok(value) == [kind |-> "ok", value |-> value]

\* mutant of realtime_result: the quota is attached only on request
realtime_result_on_request_only(response, return_property_quota) ==
    LET compact == [row_count |-> response.row_count, rows |-> response.rows]
    IN  IF response.property_quota # <<>> /\ return_property_quota
            THEN LET quota_warning == QuotaWarning(response.property_quota)
                     with_quota == SetKey(compact, "quota", response.property_quota)
                 IN  IF quota_warning # None
                         THEN SetKey(with_quota, "quota_warning", quota_warning)
                         ELSE with_quota
            ELSE compact

\* run_realtime_report after the response: the compact result, with "quota"
\* and "quota_warning" when asked for or when a bucket is above 90%
realtime_result(response, return_property_quota) ==
    LET compact == [row_count |-> response.row_count, rows |-> response.rows]
    IN  IF response.property_quota # <<>>
            THEN LET quota_warning == QuotaWarning(response.property_quota)
                     with_quota == SetKey(compact, "quota", response.property_quota)
                 IN  IF return_property_quota \/ quota_warning # None
                         THEN IF quota_warning # None
                                  THEN SetKey(with_quota, "quota_warning", quota_warning)
                                  ELSE with_quota
                         ELSE compact
            ELSE compact

\* proto_to_dict(response): every field under its proto name; a message field
\* that is not set is left out
proto_to_dict(response) ==
    LET fields == [row_count |-> response.row_count, rows |-> response.rows]
    IN  IF response.property_quota # <<>>
            THEN SetKey(fields, "property_quota", response.property_quota)
            ELSE fields

----------------------------------------------------------------------------
(* The reporting tools: building the request *)

\* a funnel step as the caller passes it: a dictionary, or something else
StepDict(d) == [type |-> "dict", dict |-> d]
NotADict == [type |-> "str", dict |-> EmptyDict]

\* the fields of the FunnelFilterExpression message
FilterFields ==
    {"and_group", "or_group", "not_expression", "funnel_field_filter",
     "funnel_event_filter"}

PagePathFilter == [funnel_field_filter |-> [field_name |-> "pagePath"]]
CheckoutFilter == [funnel_event_filter |-> [event_name |-> "begin_checkout"]]
MalformedFilter == [bogus |-> "x"]

\* the steps of the model: event only, filter_expression only, both (and no
\* name), neither, a filter_expression the message type rejects, not a dict
StepShapes ==
    {StepDict([name |-> "view", event |-> "page_view"]),
     StepDict([name |-> "page", filter_expression |-> PagePathFilter]),
     StepDict([event |-> "purchase", filter_expression |-> CheckoutFilter]),
     StepDict([name |-> "nothing"]),
     StepDict([name |-> "bad", filter_expression |-> MalformedFilter]),
     NotADict}

\* f'Step {i+1}', i counting from 0
StepLabel(i) == <<"Step 1", "Step 2", "Step 3", "Step 4", "Step 5">>[i]

FunnelStep(name, filter_expression) ==
    [kind |-> "step", name |-> name, filter_expression |-> filter_expression]

\* data_v1alpha.FunnelFilterExpression(mapping): a mapping with a key that is
\* no field of the message raises ValueError
FunnelFilterExpression(mapping) ==
    IF DOMAIN mapping \subseteq FilterFields
        THEN [kind |-> "ok", value |-> mapping]
        ELSE Error("ValueError", {"Unknown field for FunnelFilterExpression"})

\* FunnelFilterExpression(funnel_event_filter=FunnelEventFilter(event_name=...))
EventFilter(event) == [funnel_event_filter |-> [event_name |-> event]]

\* mutant of funnel_step: the event key is looked at first
funnel_step_event_first(step, i) ==
    IF step.type # "dict"
        THEN Error("ValueError", {"must be a dictionary"})
    ELSE LET step_name == IF "name" \in DOMAIN step.dict
                              THEN step.dict.name ELSE StepLabel(i)
         IN  IF "event" \in DOMAIN step.dict
                 THEN FunnelStep(step_name, EventFilter(step.dict.event))
             ELSE IF "filter_expression" \in DOMAIN step.dict
                 THEN LET filter_expr == FunnelFilterExpression(step.dict.filter_expression)
                      IN  IF filter_expr.kind = "error" THEN filter_expr
                          ELSE FunnelStep(step_name, filter_expr.value)
             ELSE Error("ValueError", {"must contain either 'filter_expression' or 'event' key"})

\* the body of "for i, step in enumerate(funnel_steps)", i counting from 1:
\* the FunnelStep, or the error raised
funnel_step(step, i) ==
    IF step.type # "dict"
        THEN Error("ValueError", {"must be a dictionary"})
    ELSE LET step_name == IF "name" \in DOMAIN step.dict
                              THEN step.dict.name ELSE StepLabel(i)
         IN  IF "filter_expression" \in DOMAIN step.dict
                 THEN LET filter_expr == FunnelFilterExpression(step.dict.filter_expression)
                      IN  IF filter_expr.kind = "error" THEN filter_expr
                          ELSE FunnelStep(step_name, filter_expr.value)
             ELSE IF "event" \in DOMAIN step.dict
                 THEN FunnelStep(step_name, EventFilter(step.dict.event))
             ELSE Error("ValueError", {"must contain either 'filter_expression' or 'event' key"})

\* the loop over funnel_steps: the list of FunnelStep, or the error of the
\* first step that raises
build_steps(funnel_steps) ==
    LET built == [i \in 1 .. Len(funnel_steps) |-> funnel_step(funnel_steps[i], i)]
        Bad == {i \in 1 .. Len(funnel_steps) : built[i].kind = "error"}
    IN  IF Bad # {}
            THEN built[CHOOSE i \in Bad : \A j \in Bad : i <= j]
            ELSE [kind |-> "ok", value |-> built]

\* the date_ranges argument: None, or a list of dictionaries
NoDateRanges == [none |-> TRUE, list |-> <<>>]
DateRangeList(list) == [none |-> FALSE, list |-> list]

DateRangeArgs ==
    {NoDateRanges,
     DateRangeList(<<[start_date |-> "7daysAgo", end_date |-> "today"]>>),
     DateRangeList(<<[start_date |-> "7daysAgo"]>>)}

\* "if not date_ranges: date_ranges = [{...}]"
DefaultDateRanges == <<[start_date |-> "30daysAgo", end_date |-> "today"]>>

FunnelRequest(property, steps, date_ranges, return_property_quota) ==
    [kind |-> "request", method |-> "run_funnel_report", property |-> property,
     funnel |-> [steps |-> steps], date_ranges |-> date_ranges,
     return_property_quota |-> return_property_quota]

\* an optional int: None, or a number
NoInt == [none |-> TRUE, int |-> 0]

SomeInt(n) == [none |-> FALSE, int |-> n]

\* "if limit:" / "if offset:": None and 0 are falsy
Truthy(v) == ~v.none /\ v.int # 0

\* a RunReportRequest / RunRealtimeReportRequest; limit and offset are NoInt
\* when the code did not assign them
ReportRequest(method, property, return_property_quota, limit, offset) ==
    [kind |-> "request", method |-> method, property |-> property,
     return_property_quota |-> return_property_quota,
     limit |-> limit, offset |-> offset]

InvalidPropertyId == Error("ValueError", {"Invalid property ID"})

\* core.run_funnel_report up to "Execute the request": the request, or the
\* error raised
core_funnel_request(args) ==
    IF args.funnel_steps = <<>>
        THEN Error("ValueError", {"funnel_steps cannot be empty"})
    ELSE IF Len(args.funnel_steps) < 2
        THEN Error("ValueError", {"funnel_steps must contain at least 2 steps"})
    ELSE LET date_ranges == IF args.date_ranges.list = <<>>
                                THEN DefaultDateRanges ELSE args.date_ranges.list
             steps == build_steps(args.funnel_steps)
             property == construct_property_rn(args.property_id)
         IN  IF steps.kind = "error" THEN steps
             ELSE IF \E i \in 1 .. Len(date_ranges) :
                         ~({"start_date", "end_date"} \subseteq DOMAIN date_ranges[i])
                 THEN Error("ValueError", {"Each date range must be a dictionary"})
             ELSE IF property = ValueError THEN InvalidPropertyId
             ELSE FunnelRequest(property.value, steps.value, date_ranges,
                                args.return_property_quota)

\* funnel.run_funnel_report up to the client call: no check of the number of
\* steps; date_ranges=None cannot be iterated
funnel_funnel_request(args) ==
    LET steps == build_steps(args.funnel_steps)
        property == construct_property_rn(args.property_id)
    IN  IF steps.kind = "error" THEN steps
        ELSE IF property = ValueError THEN InvalidPropertyId
        ELSE IF args.date_ranges.none
            THEN Error("TypeError", {"'NoneType' object is not iterable"})
        ELSE FunnelRequest(property.value, steps.value, args.date_ranges.list,
                           args.return_property_quota)

\* core.run_report up to the client call
run_report_request(args) ==
    LET property == construct_property_rn(args.property_id)
    IN  IF property = ValueError THEN InvalidPropertyId
        ELSE ReportRequest("run_report", property.value, args.return_property_quota,
                           IF Truthy(args.limit) THEN args.limit ELSE NoInt,
                           IF Truthy(args.offset) THEN args.offset ELSE NoInt)

\* realtime.run_realtime_report up to the client call: "Always request quota"
run_realtime_report_request(args) ==
    LET property == construct_property_rn(args.property_id)
    IN  IF property = ValueError THEN InvalidPropertyId
        ELSE ReportRequest("run_realtime_report", property.value, TRUE,
                           IF Truthy(args.limit) THEN args.limit ELSE NoInt,
                           NoInt)

----------------------------------------------------------------------------
(* The reporting tools as a state machine *)

ReportTools == {"core.run_report", "realtime.run_realtime_report"}
FunnelTools == {"core.run_funnel_report", "funnel.run_funnel_report"}

\* the arguments of one tool call
Args(tool, property_id, return_property_quota, funnel_steps, date_ranges) ==
    [tool |-> tool, property_id |-> property_id,
     return_property_quota |-> return_property_quota,
     funnel_steps |-> funnel_steps, date_ranges |-> date_ranges,
     limit |-> NoInt, offset |-> NoInt]

\* the call with the paging arguments the function receives
Paged(args, limit, offset) == [args EXCEPT !.limit = limit, !.offset = offset]

\* limit and offset of run_report (both None by default): not given, zero,
\* negative, positive; limit of run_realtime_report (100 by default; it has
\* no offset)
Paging(tool) ==
    IF tool = "core.run_report"
        THEN {<<NoInt, NoInt>>, <<SomeInt(0), SomeInt(0)>>,
              <<SomeInt(-1), SomeInt(-1)>>, <<SomeInt(5), SomeInt(3)>>}
        ELSE {<<SomeInt(100), NoInt>>, <<NoInt, NoInt>>, <<SomeInt(0), NoInt>>,
              <<SomeInt(-1), NoInt>>}

\* property ids: a number, a full resource name, not a number
ToolPropertyIds ==
    {StrArg(<<"1", "0">>), StrArg(<<"properties", "/", "1">>), StrArg(<<"a">>)}

FunnelPropertyIds == {StrArg(<<"1", "0">>), StrArg(<<"a">>)}

RECURSIVE StepLists(_)
StepLists(n) ==
    IF n = 0 THEN {<<>>}
    ELSE LET Shorter == StepLists(n - 1)
         IN  Shorter \cup {Append(l, step) : l \in Shorter, step \in StepShapes}

\* the calls of the model: every report call; every funnel call that does
\* not ask for the quota, and the funnel calls of at most two steps that do
ToolCalls ==
    UNION {{Paged(Args(tool, p, q, <<>>, DateRangeList(DefaultDateRanges)),
                  paging[1], paging[2]) :
                p \in ToolPropertyIds, q \in BOOLEAN, paging \in Paging(tool)} :
           tool \in ReportTools}
    \cup {Args(tool, p, FALSE, l, d) :
              tool \in FunnelTools, p \in FunnelPropertyIds,
              l \in StepLists(MaxSteps), d \in DateRangeArgs}
    \cup {Args(tool, p, TRUE, l, d) :
              tool \in FunnelTools, p \in FunnelPropertyIds,
              l \in StepLists(2), d \in DateRangeArgs \ {NoDateRanges}}

\* the request a call builds, or the error it raises before it asks for a client
BuildRequest(args) ==
    CASE args.tool = "core.run_report" -> run_report_request(args)
      [] args.tool = "realtime.run_realtime_report" -> run_realtime_report_request(args)
      [] args.tool = "core.run_funnel_report" -> core_funnel_request(args)
      [] args.tool = "funnel.run_funnel_report" -> funnel_funnel_request(args)

\* utils.create_data_api_alpha_client(): a v1alpha client built with the
\* credential of the credential store
create_data_api_alpha_client(path, cache, cfg, n, t, offset) ==
    {BuildClient("data_alpha", None, r, <<>>) :
         r \in CredentialOutcomes(path, cache, cfg, n, t, offset)}

\* the outcomes of the client call of a tool
ToolClients(tool) ==
    IF tool \in ReportTools
        THEN create_api_client("data", cached_data_client, config_path,
                               cached_credentials, config, issued, now, tz)
        ELSE create_data_api_alpha_client(config_path, cached_credentials, config,
                                          issued, now, tz)

\* what the backend may answer besides a response
BackendErrors ==
    {Error("InvalidArgument", {"INVALID_ARGUMENT"}), Error("InvalidArgument", {}),
     Error("PermissionDenied", {"PERMISSION_DENIED"}),
     Error("NotFound", {"NOT_FOUND"}),
     Error("ResourceExhausted", {"QUOTA_EXCEEDED"}),
     Error("Unauthenticated", {"expired"})}

\* the answers to a funnel request
FunnelResponses(req) ==
    {Response(rows, quota) :
         rows \in Rows,
         quota \in (IF req.return_property_quota
                        THEN {<<[quota_name |-> "tokens_per_day", consumed |-> 9001,
                                 remaining |-> 999]>>}
                        ELSE {<<>>})}

BackendOutcomes(req) ==
    (IF req.method = "run_funnel_report" THEN FunnelResponses(req) ELSE Responses(req))
    \cup BackendErrors

\* core.run_funnel_report: "except Exception as e"
funnel_error(e) ==
    IF "INVALID_ARGUMENT" \in e.message
        THEN Error("ValueError", {"Invalid funnel configuration"} \cup e.message)
    ELSE IF "PERMISSION_DENIED" \in e.message
        THEN Error("PermissionError", {"Permission denied accessing property"} \cup e.message)
    ELSE IF "NOT_FOUND" \in e.message
        THEN Error("ValueError", {"Property not found"} \cup e.message)
    ELSE IF "QUOTA_EXCEEDED" \in e.message
        THEN Error("RuntimeError", {"API quota exceeded"} \cup e.message)
    ELSE Error("Exception", {"Failed to run funnel report"} \cup e.message)

\* an error of the client call or of the backend as the tool lets it out
ToolError(tool, e) ==
    IF tool = "core.run_funnel_report" THEN funnel_error(e) ELSE e

\* what the tool makes of the backend's answer
ToolResult(args, out) ==
    IF out.kind = "error" THEN ToolError(args.tool, out)
    ELSE IF args.tool = "realtime.run_realtime_report"
        THEN Ok(realtime_result(out, args.return_property_quota))
    ELSE Ok(proto_to_dict(out))

\* entries of tool_log
ClientEvent(r) == [ev |-> "client", io |-> r.io, built |-> r.built]
BackendEvent == [ev |-> "backend", io |-> <<>>, built |-> FALSE]

\* mutant of ToolCall: the client is asked for before the request is built
ToolCallClientFirst ==
    /\ tool_pc \in {"idle", "done"}
    /\ \E r \in ToolClients(tool_call.tool) :
        LET args == tool_call
            built == BuildRequest(args)
        IN  /\ cached_credentials' = r.cache
            /\ config' = r.config
            /\ issued' = r.issued
            /\ cached_data_client' =
                   (IF args.tool \in ReportTools THEN r.client ELSE cached_data_client)
            /\ tool_response' = None
            /\ IF r.raised
                   THEN /\ tool_pc' = "done"
                        /\ request' = None
                        /\ result' = ToolError(args.tool, Error("DefaultCredentialsError", {}))
                        /\ tool_log' = <<ClientEvent(r)>>
               ELSE IF built.kind = "error"
                   THEN /\ tool_pc' = "done"
                        /\ request' = None
                        /\ result' = built
                        /\ tool_log' = <<ClientEvent(r)>>
               ELSE /\ tool_pc' = "awaiting"
                    /\ request' = built
                    /\ result' = None
                    /\ tool_log' = <<ClientEvent(r), BackendEvent>>
    /\ UNCHANGED <<tool_call, module, config_path, now, tz, auth_cached_credentials,
                   last, cached_admin_client, retryVars, propVars, fileVars>>

\* the tool is called with the arguments tool_call and runs up to its await:
\* it builds the request, asks for the client and hands the request to it
ToolCall ==
    /\ tool_pc \in {"idle", "done"}
    /\ LET args == tool_call
           built == BuildRequest(args)
       IN  /\ tool_response' = None
           /\ IF built.kind = "error"
                   THEN /\ tool_pc' = "done"
                        /\ request' = None
                        /\ result' = built
                        /\ tool_log' = <<>>
                        /\ UNCHANGED <<config, issued, cacheVars>>
                   ELSE \E r \in ToolClients(args.tool) :
                        /\ cached_credentials' = r.cache
                        /\ config' = r.config
                        /\ issued' = r.issued
                        /\ cached_data_client' =
                               (IF args.tool \in ReportTools
                                    THEN r.client ELSE cached_data_client)
                        /\ UNCHANGED cached_admin_client
                        /\ IF r.raised
                               THEN /\ tool_pc' = "done"
                                    /\ request' = built
                                    /\ result' = ToolError(args.tool,
                                                     Error("DefaultCredentialsError", {}))
                                    /\ tool_log' = <<ClientEvent(r)>>
                               ELSE /\ tool_pc' = "awaiting"
                                    /\ request' = built
                                    /\ result' = None
                                    /\ tool_log' = <<ClientEvent(r), BackendEvent>>
    /\ UNCHANGED <<tool_call, module, config_path, now, tz, auth_cached_credentials,
                   last, retryVars, propVars, fileVars>>

\* the backend answers and the tool returns or raises
ToolResponse ==
    /\ tool_pc = "awaiting"
    /\ \E out \in BackendOutcomes(request) :
        /\ tool_response' = out
        /\ result' = ToolResult(tool_call, out)
    /\ tool_pc' = "done"
    /\ UNCHANGED <<tool_call, request, tool_log, credVars, cacheVars, retryVars, propVars, fileVars>>

\* the server with its tools, and a caller about to call one of them
InitTools ==
    /\ module = "utils"
    /\ config_path = "config.json"
    /\ config \in {Missing,
                   Doc(Document(OAuthFull, TokensFull(StartTime + LOOKAHEAD + 3)))}
    /\ now = StartTime
    /\ tz = 0
    /\ issued = 0
    /\ auth_cached_credentials = None
    /\ cached_credentials = None
    /\ cached_admin_client = None
    /\ cached_data_client = None
    /\ last = NoCall
    /\ RetryIdle
    /\ PropIdle
    /\ tool_call \in ToolCalls
    /\ tool_pc = "idle"
    /\ request = None
    /\ tool_response = None
    /\ result = None
    /\ tool_log = <<>>
    /\ FileIdle

\* the caller makes its call, once or again, while other tools of the server
\* ask for the reporting client
NextTools ==
    \/ ToolCall
    \/ ToolResponse
    \/ CreateDataApiClient

SpecTools == InitTools /\ [][NextTools]_vars

----------------------------------------------------------------------------
(* Properties of the reporting tools *)

\* the call of the named tool has returned a value
Returned(tool) ==
    tool_call.tool = tool /\ tool_pc = "done" /\ result.kind = "ok"

\* the quota snapshot of the response
Snapshot == tool_response.property_quota

\* the buckets of the snapshot whose consumed / (consumed + remaining) is
\* above 0.90
Above90 ==
    {i \in 1 .. Len(Snapshot) :
         /\ {"consumed", "remaining"} \subseteq DOMAIN Snapshot[i]
         /\ Snapshot[i].consumed + Snapshot[i].remaining > 0
         /\ 10 * Snapshot[i].consumed > 9 * (Snapshot[i].consumed + Snapshot[i].remaining)}

HasKey(key) == key \in DOMAIN result.value

\* C13: the result of run_realtime_report has a quota_warning if and only if
\* some bucket of the quota snapshot is strictly above 90% used, and the
\* warning names such a bucket; a bucket at exactly 90% triggers nothing.
C13_QuotaWarningIffAbove90 ==
    Returned("realtime.run_realtime_report")
    => /\ HasKey("quota_warning") <=> Above90 # {}
       /\ HasKey("quota_warning") =>
              \E i \in Above90 :
                  result.value.quota_warning.quota_name = Snapshot[i].quota_name

C13_Witness ==
    /\ Returned("realtime.run_realtime_report")
    /\ Snapshot = <<[quota_name |-> "tokens_per_day", consumed |-> 9000, remaining |-> 1000],
                    [quota_name |-> "tokens_per_hour", consumed |-> 9001, remaining |-> 999]>>
    /\ result.value.quota_warning.quota_name = "tokens_per_hour"

\* C14: the result of run_report has "quota" and "quota_warning" when a bucket
\* is above 90% used, neither of them when none is and the quota was not asked
\* for, and "quota" whenever return_property_quota is true.
C14_RunReportQuotaRule ==
    Returned("core.run_report")
    => /\ Above90 # {} => HasKey("quota") /\ HasKey("quota_warning")
       /\ (Above90 = {} /\ ~tool_call.return_property_quota)
          => ~HasKey("quota") /\ ~HasKey("quota_warning")
       /\ tool_call.return_property_quota => HasKey("quota")

\* C15: the result of run_realtime_report has the quota block if and only if
\* return_property_quota is true or a bucket is above 90% used; otherwise the
\* keys "quota" and "quota_warning" are not in the result at all.
C15_QuotaBlockIffRequestedOrWarned ==
    Returned("realtime.run_realtime_report")
    => /\ HasKey("quota") <=> (tool_call.return_property_quota \/ Above90 # {})
       /\ HasKey("quota") => result.value.quota = Snapshot
       /\ ~(tool_call.return_property_quota \/ Above90 # {})
          => DOMAIN result.value = {"row_count", "rows"}

C15_Witness ==
    /\ Returned("realtime.run_realtime_report")
    /\ ~tool_call.return_property_quota
    /\ Snapshot = <<[quota_name |-> "tokens_per_hour", consumed |-> 9000, remaining |-> 1000]>>
    /\ ~HasKey("quota") /\ ~HasKey("quota_warning")

\* a funnel tool has been called and has run up to its await at least
FunnelCalled == tool_call.tool \in FunnelTools /\ tool_pc # "idle"

\* the step is a dictionary with an event or with a filter expression that the
\* message type accepts
ValidStep(step) ==
    /\ step.type = "dict"
    /\ \/ /\ "filter_expression" \in DOMAIN step.dict
          /\ DOMAIN step.dict.filter_expression \subseteq FilterFields
       \/ /\ "filter_expression" \notin DOMAIN step.dict
          /\ "event" \in DOMAIN step.dict

\* the arguments besides funnel_steps are acceptable
OtherArgumentsValid ==
    /\ tool_call.property_id.str \in {<<"1", "0">>, <<"properties", "/", "1">>}
    /\ ~tool_call.date_ranges.none
    /\ \A i \in 1 .. Len(tool_call.date_ranges.list) :
           DOMAIN tool_call.date_ranges.list[i] = {"start_date", "end_date"}

\* the one filter representation of a step: its filter_expression when it has
\* one, else an equality leaf on the event name
Representation(step) ==
    IF "filter_expression" \in DOMAIN step.dict
        THEN step.dict.filter_expression
        ELSE [funnel_event_filter |-> [event_name |-> step.dict.event]]

\* the funnel of the request has one step per input step, in the same order
StepsPreserved ==
    /\ Len(request.funnel.steps) = Len(tool_call.funnel_steps)
    /\ \A i \in 1 .. Len(tool_call.funnel_steps) :
           request.funnel.steps[i].filter_expression
               = Representation(tool_call.funnel_steps[i])

\* the call raised ValueError and built no request
ConstructionFailed ==
    tool_pc = "done" /\ request = None /\ result.kind = "error"
    /\ result.type = "ValueError"

\* C16: run_funnel_report raises ValueError for 0 or 1 funnel steps, and for 2
\* or more valid steps it builds a funnel with one step per input step, in the
\* caller's order.
C16_FunnelStepCount ==
    FunnelCalled
    => /\ Len(tool_call.funnel_steps) < 2 => ConstructionFailed
       /\ (/\ Len(tool_call.funnel_steps) >= 2
           /\ \A i \in 1 .. Len(tool_call.funnel_steps) : ValidStep(tool_call.funnel_steps[i])
           /\ OtherArgumentsValid)
          => request # None /\ StepsPreserved

\* C17: a step with neither `event` nor `filter_expression` makes the request
\* construction fail; in a request that is built every step carries exactly
\* one filter: its filter_expression when it has one (also when it has an event
\* as well), else the equality leaf on the event name.
C17_OneFilterPerStep ==
    FunnelCalled
    => /\ (\E i \in 1 .. Len(tool_call.funnel_steps) :
               /\ tool_call.funnel_steps[i].type = "dict"
               /\ DOMAIN tool_call.funnel_steps[i].dict \cap {"event", "filter_expression"} = {})
          => ConstructionFailed
       /\ request # None => StepsPreserved

C17_Witness ==
    /\ tool_call.tool = "core.run_funnel_report" /\ request # None
    /\ tool_call.funnel_steps =
           <<StepDict([event |-> "purchase", filter_expression |-> CheckoutFilter]),
             StepDict([name |-> "view", event |-> "page_view"])>>
    /\ request.funnel.steps =
           <<FunnelStep("Step 1", CheckoutFilter),
             FunnelStep("view", [funnel_event_filter |-> [event_name |-> "page_view"]])>>

\* what the argument checks of the tools say when they raise
ValidationMessages ==
    {"Invalid property ID", "funnel_steps cannot be empty",
     "funnel_steps must contain at least 2 steps", "must be a dictionary",
     "must contain either 'filter_expression' or 'event' key",
     "Unknown field for FunnelFilterExpression",
     "Each date range must be a dictionary"}

\* the call ended in a validation error
Rejected ==
    /\ tool_pc = "done" /\ result.kind = "error" /\ result.type = "ValueError"
    /\ result.message \cap ValidationMessages # {}

\* C18: a tool call that ends in a validation error has obtained no credential
\* and issued no backend call, it has left the credential and client caches
\* and the config source as they were (a step that is no credential-store call
\* of another tool and ends in a rejected call changes none of them), and no
\* call issues more than one backend call.
C18_ValidationBeforeCredentials ==
    /\ [](Rejected => tool_log = <<>> /\ request = None /\ tool_response = None)
    /\ [](Cardinality({i \in 1 .. Len(tool_log) : tool_log[i].ev = "backend"}) <= 1)
    /\ [][(tool_pc # "awaiting" /\ Rejected' /\ last' = last)
          => UNCHANGED <<cacheVars, config, issued>>]_vars

C18_Witness ==
    /\ Rejected
    /\ tool_call.tool = "core.run_report"
    /\ cached_credentials # None /\ cached_data_client # None

----------------------------------------------------------------------------
(* Properties of the credential store: expiry, write-back, the two copies *)

\* the last call was a credential acquisition served from the cache
CacheHit ==
    CredOp /\ ~last.force_refresh /\ ~last.raised /\ last.io = <<>>
    /\ CacheBefore # None /\ last.ret = CacheBefore

\* C21: the cache-hit path returns a cached record without reloading only when
\* the record's expiry is set and in the future; a record whose expiry is unset
\* (and that was therefore never refreshed) is never served from the cache.
C21_UnsetExpiryCountsAsExpired ==
    CacheHit => CacheBefore.expiry # NoExpiry /\ CacheBefore.expiry > last.at

----------------------------------------------------------------------------
(* The config file on disk, shared by server processes                     *)
(*                                                                         *)
(* Inside one server the acquisition of credentials is synchronous code    *)
(* (no await between the cache test and the end of _update_config_file),   *)
(* so the only readers that can run while a write is in progress are other *)
(* server processes started with the same config file.  The file is        *)
(* modelled by its text, a sequence of pieces; open(path, 'w') truncates   *)
(* it and json.dump writes the pieces at the writer's own file offset.     *)

\* server processes started with the same config file
Servers == {1, 2}

\* one piece of the text of the file: a brace, the opening of a section, or
\* one "key": value pair
Piece(path, str, int) == [path |-> path, str |-> str, int |-> int]

OpenBrace == Piece("{", "", NoExpiry)

CloseBrace == Piece("}", "", NoExpiry)

\* the bytes between the end of a truncated file and a write past that end
Hole == Piece("NUL", "", NoExpiry)

\* the keys in the order json.dump writes them
SectionNames == <<"googleOAuthCredentials", "googleAnalyticsTokens">>

FieldNames == <<"clientId", "clientSecret", "accessToken", "refreshToken", "expiresAt">>

\* json.dump(config, f, indent=2): the text of a document, each section
\* opened by its name and followed by its "key": value pairs
json_dump(doc) ==
    LET FieldText(section) ==
            LET present == SelectSeq(FieldNames, LAMBDA k : k \in DOMAIN section)
            IN  [i \in 1 .. Len(present) |->
                    IF present[i] = "expiresAt"
                        THEN Piece(present[i], "", section[present[i]])
                        ELSE Piece(present[i], section[present[i]], NoExpiry)]
        SectionText(name) ==
            IF name \in DOMAIN doc
                THEN <<Piece(name, "{", NoExpiry)>> \o FieldText(doc[name])
                ELSE <<>>
    IN  <<OpenBrace>>
        \o (IF "theme" \in DOMAIN doc
                THEN <<Piece("theme", doc["theme"], NoExpiry)>> ELSE <<>>)
        \o SectionText(SectionNames[1])
        \o SectionText(SectionNames[2])
        \o <<CloseBrace>>

\* the piece opens a section
IsSection(piece) == piece.str = "{"

\* the section the i-th piece of the text lies in: the position of the last
\* section opening before it, 0 at top level
SectionOf(text, i) ==
    LET before == {j \in 1 .. i - 1 : IsSection(text[j])}
    IN  IF before = {} THEN 0 ELSE CHOOSE j \in before : \A k \in before : k <= j

\* the text is one JSON object: braces at both ends and pairs in between
WellFormed(text) ==
    /\ Len(text) >= 2
    /\ text[1] = OpenBrace /\ text[Len(text)] = CloseBrace
    /\ \A i \in 2 .. Len(text) - 1 : text[i] \notin {OpenBrace, CloseBrace, Hole}

\* the object a section opening at position s holds
ParseSection(text, s) ==
    LET inside == {i \in s + 1 .. Len(text) - 1 :
                       ~IsSection(text[i]) /\ SectionOf(text, i) = s}
    IN  [k \in {text[i].path : i \in inside} |->
            LET i == CHOOSE j \in inside : text[j].path = k
            IN  IF k = "expiresAt" THEN text[i].int ELSE text[i].str]

\* json.load(f): the document, or JSONDecodeError for an empty, truncated or
\* otherwise malformed text
json_load(text) ==
    IF ~WellFormed(text) THEN InvalidJson
    ELSE LET top == {i \in 2 .. Len(text) - 1 :
                         IsSection(text[i]) \/ SectionOf(text, i) = 0}
         IN  Doc([k \in {text[i].path : i \in top} |->
                     LET i == CHOOSE j \in top : text[j].path = k
                     IN  IF IsSection(text[i]) THEN ParseSection(text, i)
                                               ELSE text[i].str])

\* f.write(piece) at file offset i: the file grows when the offset is at or
\* past its end
WriteAt(text, i, piece) ==
    [j \in 1 .. (IF i > Len(text) THEN i ELSE Len(text)) |->
        IF j = i THEN piece ELSE IF j <= Len(text) THEN text[j] ELSE Hole]

\* a server process inside utils._try_oauth_authentication: where it is, what
\* its last json.load gave, its credentials, and the document and file offset
\* of its _update_config_file
Server(pc, loaded, credentials, doc, pos) ==
    [pc |-> pc, loaded |-> loaded, credentials |-> credentials,
     config |-> doc, pos |-> pos]

\* the process is outside _try_oauth_authentication, having got credentials
Outside(loaded, credentials) == Server("idle", loaded, credentials, EmptyDict, 0)

\* utils._try_oauth_authentication up to the refresh decision
LoadConfig(p) ==
    /\ srv[p].pc = "idle"
    /\ LET cfg == json_load(file)
           credentials == ParseConfig(cfg)
       IN  srv' = [srv EXCEPT ![p] =
                IF credentials = None THEN Outside(cfg, None)
                ELSE IF ~utils_should_refresh(ExpiresAt(cfg), credentials, now)
                    THEN Outside(cfg, credentials)
                ELSE Server("refresh", cfg, credentials, EmptyDict, 0)]
    /\ UNCHANGED <<file, versions, credVars, cacheVars, retryVars, propVars, toolVars>>

\* credentials.refresh(Request())
RefreshToken(p) ==
    /\ srv[p].pc = "refresh"
    /\ \/ /\ srv' = [srv EXCEPT ![p] = Outside(srv[p].loaded, None)]
          /\ UNCHANGED issued
       \/ /\ issued < MaxIssued
          /\ \E expires_in \in ExpiresIn :
                srv' = [srv EXCEPT ![p] =
                    Server("persist", srv[p].loaded,
                           Refreshed(srv[p].credentials, issued, now,
                                     [expires_in |-> expires_in]),
                           EmptyDict, 0)]
          /\ issued' = issued + 1
    /\ UNCHANGED <<file, versions, module, config, config_path, now, tz,
                   auth_cached_credentials, last, cacheVars, retryVars,
                   propVars, toolVars>>

\* _update_config_file: open(config_path, 'r'), json.load and the two
\* assignments; any exception ends the function
PersistRead(p) ==
    /\ srv[p].pc = "persist"
    /\ LET cfg == json_load(file)
           credentials == srv[p].credentials
       IN  srv' = [srv EXCEPT ![p] =
                IF cfg.kind # "doc" \/ "googleAnalyticsTokens" \notin DOMAIN cfg.doc
                    THEN Outside(cfg, credentials)
                    ELSE Server("open", cfg, credentials,
                                [cfg.doc EXCEPT !["googleAnalyticsTokens"] =
                                    SetKey(SetKey(@, "accessToken", credentials.token),
                                           "expiresAt", timestamp(credentials.expiry, tz))],
                                0)]
    /\ UNCHANGED <<file, versions, credVars, cacheVars, retryVars, propVars, toolVars>>

\* _update_config_file: open(config_path, 'w') truncates the file
PersistOpen(p) ==
    /\ srv[p].pc = "open"
    /\ file' = <<>>
    /\ versions' = versions \cup {srv[p].config}
    /\ srv' = [srv EXCEPT ![p].pc = "dump"]
    /\ UNCHANGED <<credVars, cacheVars, retryVars, propVars, toolVars>>

\* _update_config_file: json.dump writes the next piece; after the last one
\* the file is closed
PersistDump(p) ==
    /\ srv[p].pc = "dump"
    /\ LET text == json_dump(srv[p].config)
           i == srv[p].pos + 1
       IN  /\ file' = WriteAt(file, i, text[i])
           /\ srv' = [srv EXCEPT ![p] =
                    IF i = Len(text) THEN Outside(srv[p].loaded, srv[p].credentials)
                                     ELSE [srv[p] EXCEPT !.pos = i]]
    /\ UNCHANGED <<versions, credVars, cacheVars, retryVars, propVars, toolVars>>

\* the servers start with a complete config file
InitFile ==
    /\ \E d \in CompleteDocuments : file = json_dump(d) /\ versions = {d}
    /\ srv = [p \in Servers |-> Outside(None, None)]
    /\ module = "utils"
    /\ config_path = "config.json"
    /\ config = Missing
    /\ now = StartTime
    /\ tz = 0
    /\ issued = 0
    /\ auth_cached_credentials = None
    /\ cached_credentials = None
    /\ cached_admin_client = None
    /\ cached_data_client = None
    /\ last = NoCall
    /\ RetryIdle
    /\ PropIdle
    /\ ToolIdle

NextFile ==
    \E p \in Servers :
        \/ LoadConfig(p)
        \/ RefreshToken(p)
        \/ PersistRead(p)
        \/ PersistOpen(p)
        \/ PersistDump(p)

SpecFile == InitFile /\ [][NextFile]_vars

\* json.load inverts json.dump on every document of the model
json_round_trip == \A d \in Documents : json_load(json_dump(d)) = Doc(d)

\* C22: whatever a server process reads from the config file, in a credential
\* load or in the read step of a write-back, is a complete document: the one
\* the file held before some update or the one that update wrote, never an
\* empty, truncated or partially written text.
C22_ReadersSeeCompleteDocument ==
    \A p \in Servers :
        srv[p].loaded # None => srv[p].loaded \in {Doc(d) : d \in versions}

----------------------------------------------------------------------------
(* Concurrent tool calls of one server.  A tool call reaches the credential *)
(* store through one synchronous create_*_api_client() call and yields to   *)
(* the event loop only at the backend call that follows it, so the          *)
(* interleavings of concurrent calls are the sequences of whole             *)
(* acquisitions and invalidations: the behaviours of Spec.                  *)

\* the number of the refresh that issued an access token, 0 for the token the
\* config file came with
TokenNo(token) ==
    IF \E i \in 1 .. 4 : token = AccessToken(i)
        THEN CHOOSE i \in 1 .. 4 : token = AccessToken(i)
        ELSE 0

\* accessToken as persisted in the config source
PersistedToken(cfg) ==
    IF cfg.kind = "doc"
        THEN GetStr(GetSection(cfg.doc, "googleAnalyticsTokens"), "accessToken")
        ELSE ""

\* the result of a later refresh is not replaced by that of an earlier one
NotOlder(c1, c2) ==
    (c1.kind = "oauth" /\ c2.kind = "oauth") => TokenNo(c2.token) >= TokenNo(c1.token)

\* the same access token comes with the same expiry
SameTokenSameExpiry(c1, c2) ==
    (c1.kind = "oauth" /\ c2.kind = "oauth" /\ c2.token = c1.token)
    => c2.expiry = c1.expiry

\* the number of token refreshes the last call attempted
Refreshes == Cardinality({i \in 1 .. Len(last.io) : last.io[i] = "refresh"})

C23_PersistedNeverOlder ==
    [][TokenNo(PersistedToken(config')) >= TokenNo(PersistedToken(config))]_vars

C23_CachedNeverOlder ==
    [][/\ NotOlder(cached_credentials, cached_credentials')
       /\ NotOlder(auth_cached_credentials, auth_cached_credentials')]_vars

C23_NoIncorrectData ==
    [][/\ SameTokenSameExpiry(cached_credentials, cached_credentials')
       /\ SameTokenSameExpiry(auth_cached_credentials, auth_cached_credentials')]_vars

C23_OneExtraRefresh ==
    [](/\ CredOp => Refreshes <= 1
       /\ ClientOp => Refreshes <= 2)

\* C23: over every interleaving of calls that share the caches and the config
\* source, the persisted and the cached access token are never replaced by
\* the result of an earlier refresh, a call that replaces a stale cache entry
\* gets the token with the expiry it was issued with (the same token never
\* comes back with another expiry), and one call attempts at most one refresh
\* more than the one it needs.
C23_InterleavingsConverge ==
    /\ C23_PersistedNeverOlder
    /\ C23_CachedNeverOlder
    /\ C23_NoIncorrectData
    /\ C23_OneExtraRefresh

\* the last call refreshed the token and its write-back left the config source
\* as it was (a successful write-back stores a token the file never held)
WriteBackFailed ==
    CredOp /\ DidIO("refresh") /\ DidIO("persist_read")
    /\ config = last.before.config

\* the credential a successful refresh of the loaded record yields
RefreshedRecords ==
    {Refreshed(ParseConfig(last.before.config), issued - 1, last.at,
               [expires_in |-> e]) : e \in ExpiresIn}

\* C24: when the refresh succeeds and the write-back fails, the call raises
\* nothing, returns the refreshed in-memory credential and caches it.
C24_WriteBackFailureSwallowed ==
    WriteBackFailed
    => /\ ~last.raised
       /\ last.ret \in RefreshedRecords
       /\ last.ret.token = AccessToken(issued)
       /\ CacheNow = last.ret

C24_Witness ==
    /\ WriteBackFailed
    /\ last.op = "utils._create_credentials"
    /\ DidIO("persist_write")
    /\ cached_credentials.token = "at1"
    /\ PersistedToken(config) = "at0"

----------------------------------------------------------------------------
(* Properties of the reporting tools: the scan of the quota, the paging     *)
(* fields of the request                                                    *)

\* the first bucket of the snapshot, in the order of quota_dict.items(), that
\* is above 90%
FirstAbove90 == CHOOSE i \in Above90 : \A j \in Above90 : i <= j

ReportRequestBuilt ==
    request # None /\ request.kind = "request"
    /\ request.method \in {"run_report", "run_realtime_report"}

\* C26: in every request run_report or run_realtime_report builds, a limit
\* that is set is a positive integer and an offset that is set is not
\* negative, whatever limit and offset the caller passed.
C26_LimitPositiveOffsetNonNegative ==
    ReportRequestBuilt
    => /\ ~request.limit.none => request.limit.int > 0
       /\ ~request.offset.none => request.offset.int >= 0

----------------------------------------------------------------------------
(* The two copies of the credential acquisition side by side *)

\* the credential cache of the module the process imports
ModuleCache ==
    IF module = "auth" THEN auth_cached_credentials ELSE cached_credentials

\* the call attempted a token refresh
AttemptsRefresh(r) == \E i \in 1 .. Len(r.io) : r.io[i] = "refresh"

\* the two outcomes are the same choice between cache hit, OAuth record and
\* default credentials, the same refresh decision, the same returned
\* credential and the same cache afterwards
SameOutcome(a, u) ==
    /\ a.path = u.path
    /\ AttemptsRefresh(a) <=> AttemptsRefresh(u)
    /\ a.raised = u.raised
    /\ a.ret = u.ret
    /\ a.cache = u.cache

\* C27: from the same cache, config source and clock, and with the same
\* outcomes of the refresh, of the write-back and of google.auth.default(),
\* auth.create_credentials(config_path, force_refresh=False) and
\* utils._create_credentials() take the same branch, make the same refresh
\* decision and leave the same cache.
C27_ImplementationsAgree ==
    \A env \in {e \in Env : Allowed(e, issued)} :
        SameOutcome(
            create_credentials(config_path, FALSE, ModuleCache, config,
                               issued, now, tz, env),
            utils_create_credentials(config_path, ModuleCache, config,
                                     issued, now, tz, env))

----------------------------------------------------------------------------
(* Properties of the cached clients after an invalidation *)

\* the cached client of the surface the last call served, now
ClientNow ==
    IF last.op = "utils.create_admin_api_client"
        THEN cached_admin_client ELSE cached_data_client

\* this step is the first credential-store call after an invalidation, and it
\* is a create_admin_api_client() or create_data_api_client() call
ClientCallAfterInvalidation ==
    /\ last.op = "utils.invalidate_cached_credentials"
    /\ last' # last
    /\ last'.op \in {"utils.create_admin_api_client", "utils.create_data_api_client"}

\* C28: the first create_admin_api_client() or create_data_api_client() call
\* after invalidate_cached_credentials() either raises or builds a new client,
\* with a credential it obtained itself from the config file or the default
\* provider, and hands out that client; in general a call that finds its
\* client cache empty builds the client, and one that finds the credential
\* cache empty obtains the credential.
C28_FreshClientAfterInvalidation ==
    /\ [][ClientCallAfterInvalidation
          => \/ last'.raised
             \/ /\ last'.built
                /\ last'.io # <<>>
                /\ last'.ret.credentials = cached_credentials'
                /\ (IF last'.op = "utils.create_admin_api_client"
                        THEN cached_admin_client' ELSE cached_data_client') = last'.ret]_vars
    /\ []((ClientOp /\ ~last.raised /\ ClientBefore = None)
            => last.built /\ ClientNow = last.ret)
    /\ []((ClientOp /\ ~last.raised /\ last.before.cached_credentials = None)
            => last.io # <<>>)

C28_Witness ==
    /\ last.op = "utils.create_data_api_client" /\ last.built
    /\ ClientBefore = None
    /\ last.before.cached_credentials = None
    /\ PersistedToken(last.before.config) = "at1"
    /\ last.io = <<"read">>
    /\ last.ret.credentials.token = "at1"

----------------------------------------------------------------------------
(* Properties of retry_on_auth_error and construct_property_rn over all of  *)
(* their inputs                                                             *)

\* C29: for every integer max_retries, retry_on_auth_error returns normally
\* only after an invocation of the operation that succeeded, and returns the
\* result of that invocation; it never returns without having invoked the
\* operation.
C29_ReturnsOnlyAnInvocationResult ==
    rpc = "returned"
    => /\ Len(log) >= 1
       /\ log[Len(log)].ev = "call"
       /\ log[Len(log)].out.kind = "ok"
       /\ outcome = log[Len(log)].out

\* C30: every value construct_property_rn returns is "properties/" followed by
\* one or more decimal digits, and construct_property_rn applied to it
\* succeeds and returns it again.
C30_IdempotentCanonicalForm ==
    (property_rn # None /\ property_rn.kind = "ok")
    => /\ Len(property_rn.value) >= 3
       /\ SubSeq(property_rn.value, 1, 2) = <<"properties", "/">>
       /\ AllDecimal(SubSeq(property_rn.value, 3, Len(property_rn.value)))
       /\ construct_property_rn(StrArg(property_rn.value)) = property_rn

====
